---- MODULE Spec2Model ----
(***************************************************************************)
(* State-machine model of the traffic simulation engine:                   *)
(*   randomAgents/model.py  (CityModel: grid queries, A* search, spawning, *)
(*                           the tick)                                     *)
(*   randomAgents/agent.py  (Car state machine, Traffic_Light)             *)
(*   agents_server.py       (the /update route that drives the tick)       *)
(*                                                                         *)
(* Coordinates are pairs <<x, y>>, 0-based as in the source.  Costs of the *)
(* search are scaled by 10 so that 1.0, 1.4 and 0.2 are the integers 10,   *)
(* 14 and 2; every comparison the search makes is between such sums.       *)
(***************************************************************************)
EXTENDS Integers, Sequences, FiniteSets, TLC

VARIABLES
    cfg,                    \* the configuration loaded: map file rows, light entries, spawnSteps,
                            \* and the iteration order of sets of strings in this process
    steps,                  \* Model.steps, the tick counter
    running,                \* CityModel.running
    lights,                 \* Traffic_Light.state, by the light's cell
    cars,                   \* every Car object constructed so far, by unique_id
    agents,                 \* unique_ids of the Cars still registered in model.agents
    agent_id_counter,       \* CityModel.agent_id_counter
    totCarsSpawned, carsSpawnedThisStep, totCarsArrived, totStepsTaken,
    totSemaforosFound, embotellamientos,
    cars_arrived_this_step, traffic_jams_this_step,
    pc,                     \* "idle" between ticks, "pass" during the agent pass
    pendingCars,            \* Cars of the shuffled pass that have not stepped yet
    pendingLights,          \* Traffic_Lights of the shuffled pass that have not stepped yet
    carsBefore, embotellamientosBefore,   \* locals of CityModel.step
    twin,                   \* a second run of the model (record of the fields above)
    fpStart, fpEnd, fpAvoid, fpResult,    \* arguments and result of one findPath call
    rdPos, rdResult,        \* argument and result of one getRoadDirection call
    maCurrent, maNext, maResult,    \* arguments and result of one isMoveAllowedByRoad call
    trail,                  \* history: cell and state of each Car after each of its steps
    atTickStart             \* history: the cumulative metrics when the current tick began

worldVars == <<cfg, steps, running, lights, cars, agents, agent_id_counter,
               totCarsSpawned, carsSpawnedThisStep, totCarsArrived, totStepsTaken,
               totSemaforosFound, embotellamientos, cars_arrived_this_step,
               traffic_jams_this_step, pc, pendingCars, pendingLights,
               carsBefore, embotellamientosBefore>>

fpVars == <<fpStart, fpEnd, fpAvoid, fpResult, rdPos, rdResult, maCurrent, maNext, maResult>>

histVars == <<trail, atTickStart>>

vars == <<worldVars, twin, fpVars, histVars>>

-----------------------------------------------------------------------------
(* Bounds of the model *)

\* number of ticks explored
MaxTick == 7

\* number of cars placed on the map when findPath is exercised on its own
MaxPlaced == 1

\* number of ticks explored on the closed cycle
MaxLoopTick == 20

-----------------------------------------------------------------------------
(* Configurations: the map file (rows top to bottom, one glyph per cell),  *)
(* the two traffic-light entries of mapDictionary.json, and spawnSteps.    *)

Configs ==
    << \* 1: one lane, a light that starts closed, one destination
       [ lines |-> << << ">", "S", "D" >> >>,
         S |-> 2, s |-> 1, spawnSteps |-> 2, setOrder |-> 1 ],
       \* 2: two eastbound lanes fed from one corner, a light that starts closed
       [ lines |-> << << ">", ">", "S", "D" >>,
                      << "#", ">", ">", "#" >> >>,
         S |-> 3, s |-> 2, spawnSteps |-> 2, setOrder |-> 1 ],
       \* 3: two destinations
       [ lines |-> << << "#", "D", "#" >>,
                      << ">", ">", "D" >> >>,
         S |-> 2, s |-> 2, spawnSteps |-> 3, setOrder |-> 1 ],
       \* 4: roads but no destination
       [ lines |-> << << ">", ">" >>,
                      << "<", "<" >> >>,
         S |-> 2, s |-> 2, spawnSteps |-> 1, setOrder |-> 1 ],
       \* 5: a turn, northbound and westbound roads, a light that starts open
       [ lines |-> << << "D", "<", "<" >>,
                      << "#", "s", "^" >>,
                      << ">", ">", "^" >> >>,
         S |-> 2, s |-> 2, spawnSteps |-> 2, setOrder |-> 1 ],
       \* 6: one lane behind a light that opens on the third tick
       [ lines |-> << << ">", "S", "D" >> >>,
         S |-> 3, s |-> 1, spawnSteps |-> 2, setOrder |-> 1 ],
       \* 7: a straight eastward road of five cells, a light of cycle 2 that
       \*    starts closed at index 2, the destination at index 4
       [ lines |-> << << ">", ">", "S", ">", "D" >> >>,
         S |-> 2, s |-> 2, spawnSteps |-> 10, setOrder |-> 1 ],
       \* 8: a closed cycle of four one-way cells fed from one corner, the
       \*    destination outside the cycle, a light no road leads to
       [ lines |-> << << "v", "<", "#" >>,
                      << ">", "^", "s" >>,
                      << "#", "#", "D" >> >>,
         S |-> 2, s |-> 2, spawnSteps |-> 50, setOrder |-> 1 ],
       \* 9: one lane behind a light that stays closed for the first six ticks
       [ lines |-> << << ">", ">", "S", "D" >> >>,
         S |-> 7, s |-> 2, spawnSteps |-> 10, setOrder |-> 1 ],
       \* 10: two eastbound lanes fed from two corners, the upper one behind a
       \*     light that stays closed for the first two ticks
       [ lines |-> << << ">", "S", ">", "#" >>,
                      << ">", ">", ">", "D" >> >>,
         S |-> 3, s |-> 2, spawnSteps |-> 10, setOrder |-> 1 ],
       \* 11: an eastbound lane behind a light that stays closed for the first
       \*     three ticks, beside a stretch of westbound lane
       [ lines |-> << << "#", "<", "<", "#", "#" >>,
                      << ">", ">", "S", ">", "D" >> >>,
         S |-> 4, s |-> 2, spawnSteps |-> 10, setOrder |-> 1 ],
       \* 12: one lane with a destination on the way to another
       [ lines |-> << << ">", "D", "D" >> >>,
         S |-> 2, s |-> 2, spawnSteps |-> 10, setOrder |-> 1 ],
       \* 13: a destination reached straight on through a light or by a
       \*     diagonal move past it
       [ lines |-> << << "#", "s", "D" >>,
                      << ">", ">", "#" >> >>,
         S |-> 2, s |-> 2, spawnSteps |-> 10, setOrder |-> 1 ],
       \* 14: a way down to a middle lane and up again through a light that
       \*     starts closed, with a dead-end lane below the light
       [ lines |-> << << ">", "#", "S", "D" >>,
                      << "#", ">", "#", "#" >>,
                      << "#", "#", ">", "#" >> >>,
         S |-> 2, s |-> 2, spawnSteps |-> 10, setOrder |-> 1 ],
       \* 15: one lane through a light that starts closed, with a northbound
       \*     cell that leads nowhere beside the light
       [ lines |-> << << "#", "^", "#", "#" >>,
                      << ">", "S", ">", "D" >> >>,
         S |-> 2, s |-> 2, spawnSteps |-> 50, setOrder |-> 1 ] >>

ConfigIds == DOMAIN Configs

\* the configurations whose runs are explored
RunConfigs == {1, 2, 3, 4, 6, 7, 8, 9, 10, 11, 12, 14}

\* the configurations run twice side by side
TwinConfigs == {1, 3, 6}

\* the configurations with a closed cycle, run for MaxLoopTick ticks
LoopConfigs == {8}

\* the configurations run for MaxLoopTick ticks with every agent scheduled
LiveConfigs == {7, 15}

width(k) == Len(k.lines[1])

height(k) == Len(k.lines)

Cells(k) == (0 .. width(k) - 1) \X (0 .. height(k) - 1)

InBounds(k, pos) == 0 <= pos[1] /\ pos[1] < width(k) /\ 0 <= pos[2] /\ pos[2] < height(k)

\* the glyph of the map file at a cell: cell_pos = (c, height - r - 1)
glyphAt(k, pos) == k.lines[height(k) - pos[2]][pos[1] + 1]

dataDictionary(k, col) ==
    CASE col = ">" -> "Right"
      [] col = "<" -> "Left"
      [] col = "^" -> "Up"
      [] col = "v" -> "Down"
      [] col = "S" -> k.S
      [] col = "s" -> k.s
      [] OTHER -> "None"

IsRoadGlyph(col) == col \in {"v", "^", ">", "<"}

IsLightGlyph(col) == col \in {"S", "s"}

hasRoad(k, pos) == IsRoadGlyph(glyphAt(k, pos))

hasLight(k, pos) == IsLightGlyph(glyphAt(k, pos))

hasObstacle(k, pos) == glyphAt(k, pos) = "#"

hasDestination(k, pos) == glyphAt(k, pos) = "D"

LightCells(k) == {pos \in Cells(k) : hasLight(k, pos)}

timeToChange(k, pos) == dataDictionary(k, glyphAt(k, pos))

initialLightState(k, pos) == glyphAt(k, pos) # "S"

\* the cell of the i-th character read by the parse loop (rows first), i from 0
parseCell(k, i) == << i % width(k), height(k) - (i \div width(k)) - 1 >>

RECURSIVE destinationsFrom(_, _)
destinationsFrom(k, i) ==
    IF i >= width(k) * height(k) THEN << >>
    ELSE IF hasDestination(k, parseCell(k, i))
         THEN << parseCell(k, i) >> \o destinationsFrom(k, i + 1)
         ELSE destinationsFrom(k, i + 1)

\* CityModel.destinations, as the cells of the Destination agents in creation order
destinations(k) == destinationsFrom(k, 0)

\* the value of agent_id_counter once the map is loaded
fixedAgentCount(k) ==
    Cardinality({pos \in Cells(k) : glyphAt(k, pos) \in {"v", "^", ">", "<", "S", "s", "#", "D"}})

-----------------------------------------------------------------------------
(* The world: the fields of one CityModel and of its agents *)

W == [ cfg |-> cfg, steps |-> steps, running |-> running, lights |-> lights,
       cars |-> cars, agents |-> agents, agent_id_counter |-> agent_id_counter,
       totCarsSpawned |-> totCarsSpawned, carsSpawnedThisStep |-> carsSpawnedThisStep,
       totCarsArrived |-> totCarsArrived, totStepsTaken |-> totStepsTaken,
       totSemaforosFound |-> totSemaforosFound, embotellamientos |-> embotellamientos,
       cars_arrived_this_step |-> cars_arrived_this_step,
       traffic_jams_this_step |-> traffic_jams_this_step,
       pc |-> pc, pendingCars |-> pendingCars, pendingLights |-> pendingLights,
       carsBefore |-> carsBefore, embotellamientosBefore |-> embotellamientosBefore ]

\* the Cars standing in a cell
carsAt(w, pos) == {c \in w.agents : w.cars[c].pos = pos}

-----------------------------------------------------------------------------
(* CityModel: grid queries *)

Abs(n) == IF n < 0 THEN -n ELSE n

heuristic(pos1, pos2) == Abs(pos1[1] - pos2[1]) + Abs(pos1[2] - pos2[2])

isValidRoad(k, pos) ==
    IF ~InBounds(k, pos) THEN FALSE
    ELSE IF hasObstacle(k, pos) THEN FALSE
    ELSE hasRoad(k, pos) \/ hasLight(k, pos) \/ hasDestination(k, pos)

\* the scan order of the four adjacent cells
NeighbourScan == << <<1, 0>>, <<-1, 0>>, <<0, 1>>, <<0, -1>> >>

\* the directions of the Roads next to a cell, in scan order
RECURSIVE neighbourDirections(_, _, _)
neighbourDirections(k, pos, i) ==
    IF i > Len(NeighbourScan) THEN << >>
    ELSE LET checkPos == << pos[1] + NeighbourScan[i][1], pos[2] + NeighbourScan[i][2] >>
         IN  IF InBounds(k, checkPos) /\ hasRoad(k, checkPos)
             THEN << dataDictionary(k, glyphAt(k, checkPos)) >> \o neighbourDirections(k, pos, i + 1)
             ELSE neighbourDirections(k, pos, i + 1)

count(seq, x) == Cardinality({i \in DOMAIN seq : seq[i] = x})

\* max(set(directions), key=directions.count): the first element, in the
\* iteration order of the set, whose count is the largest
mostCommon(directions, order) ==
    LET best == CHOOSE n \in 0 .. Len(directions) :
                    /\ \E i \in DOMAIN directions : count(directions, directions[i]) = n
                    /\ \A i \in DOMAIN directions : count(directions, directions[i]) <= n
        first == CHOOSE j \in DOMAIN order :
                    /\ count(directions, order[j]) = best
                    /\ \A i \in 1 .. j - 1 : count(directions, order[i]) # best
    IN  order[first]

\* the iteration orders of a set of direction strings: the order follows the
\* hashes of the strings, which Python salts anew in every process, so any
\* direction can come first
SetOrders ==
    << << "Right", "Left", "Up", "Down" >>,
       << "Left", "Up", "Down", "Right" >>,
       << "Up", "Down", "Right", "Left" >>,
       << "Down", "Right", "Left", "Up" >> >>

\* getRoadDirection with no answer for a cell that holds no Road and has none beside it
getRoadDirectionUnresolved(k, pos) ==
    IF ~InBounds(k, pos) THEN "None"
    ELSE IF hasRoad(k, pos) THEN dataDictionary(k, glyphAt(k, pos))
    ELSE IF hasLight(k, pos) \/ hasDestination(k, pos)
         THEN LET commonest(directions) ==
                      IF directions # << >> THEN mostCommon(directions, SetOrders[k.setOrder])
                      ELSE "None"
              IN  commonest(neighbourDirections(k, pos, 1))
    ELSE "None"

\* "None" stands for Python's None
getRoadDirection(k, pos) ==
    IF ~InBounds(k, pos) THEN "None"
    ELSE IF hasRoad(k, pos) THEN dataDictionary(k, glyphAt(k, pos))
    ELSE IF hasLight(k, pos) \/ hasDestination(k, pos)
         THEN LET commonest(directions) ==
                      IF directions # << >> THEN mostCommon(directions, SetOrders[k.setOrder])
                      ELSE "Right"
              IN  commonest(neighbourDirections(k, pos, 1))
    ELSE "Right"

\* the cells whose inferred direction depends on the iteration order of the set
tiedCells(k) ==
    {pos \in Cells(k) : \E o \in DOMAIN SetOrders :
        getRoadDirection([k EXCEPT !.setOrder = o], pos) # getRoadDirection(k, pos)}

\* a configuration as each process can load it
Loaded(i) ==
    {[Configs[i] EXCEPT !.setOrder = o] :
        o \in IF tiedCells(Configs[i]) = {} THEN {1} ELSE DOMAIN SetOrders}

\* a faulty variant of isMoveAllowedByRoad: a move that does not advance along
\* the flow is refused as well
isMoveAllowedForwardOnly(k, currentPos, nextPos) ==
    LET dx == nextPos[1] - currentPos[1]
        dy == nextPos[2] - currentPos[2]
        allowed(currentDirection) ==
            IF currentDirection = "None" THEN TRUE
            ELSE CASE currentDirection = "Right" -> dx > 0
                   [] currentDirection = "Left"  -> dx < 0
                   [] currentDirection = "Up"    -> dy > 0
                   [] currentDirection = "Down"  -> dy < 0
                   [] OTHER -> TRUE
    IN  allowed(getRoadDirection(k, currentPos))

isMoveAllowedByRoad(k, currentPos, nextPos) ==
    LET dx == nextPos[1] - currentPos[1]
        dy == nextPos[2] - currentPos[2]
        allowed(currentDirection) ==
            IF currentDirection = "None" THEN TRUE
            ELSE CASE currentDirection = "Right" -> dx >= 0
                   [] currentDirection = "Left"  -> dx <= 0
                   [] currentDirection = "Up"    -> dy >= 0
                   [] currentDirection = "Down"  -> dy <= 0
                   [] OTHER -> TRUE
    IN  allowed(getRoadDirection(k, currentPos))

\* a faulty variant of getAllowedMoves: the four axis moves whatever the direction
anyDirectionMoves(pos, direction) ==
    << <<0, 1, 10>>, <<0, -1, 10>>, <<1, 0, 10>>, <<-1, 0, 10>> >>

\* a faulty variant of getAllowedMoves: the two lateral moves added
sidewaysMoves(pos, direction) ==
    CASE direction \in {"Right", "Left"} ->
             << <<(IF direction = "Right" THEN 1 ELSE -1), 0, 10>>, <<0, 1, 10>>, <<0, -1, 10>> >>
      [] OTHER ->
             << <<0, (IF direction = "Up" THEN 1 ELSE -1), 10>>, <<1, 0, 10>>, <<-1, 0, 10>> >>

\* (dx, dy, cost * 10)
getAllowedMoves(pos, direction) ==
    CASE direction = "Right" -> << <<1, 0, 10>>, <<1, 1, 14>>, <<1, -1, 14>> >>
      [] direction = "Left"  -> << <<-1, 0, 10>>, <<-1, 1, 14>>, <<-1, -1, 14>> >>
      [] direction = "Up"    -> << <<0, 1, 10>>, <<1, 1, 14>>, <<-1, 1, 14>> >>
      [] direction = "Down"  -> << <<0, -1, 10>>, <<1, -1, 14>>, <<-1, -1, 14>> >>
      [] OTHER -> << <<0, 1, 10>>, <<0, -1, 10>>, <<1, 0, 10>>, <<-1, 0, 10>> >>

\* weight * 10
getCellWeight(w, pos, avoidCars) ==
    (IF hasLight(w.cfg, pos) THEN timeToChange(w.cfg, pos) * 2 ELSE 0)
    + (IF avoidCars /\ ~hasDestination(w.cfg, pos)
       THEN 800 * Cardinality(carsAt(w, pos)) ELSE 0)

-----------------------------------------------------------------------------
(* CityModel.findPath: the A* search *)

\* a faulty variant of maxIterations: a cap of one iteration per row
maxIterationsShort(k) == height(k)

maxIterations(k) == width(k) * height(k) * 25

\* the index of the first entry of openSet with the lowest f score
minIndex(openSet) ==
    CHOOSE i \in DOMAIN openSet :
        /\ \A j \in DOMAIN openSet : openSet[i][1] <= openSet[j][1]
        /\ \A j \in 1 .. i - 1 : openSet[j][1] > openSet[i][1]

\* list.pop(i)
removeAt(seq, i) == SubSeq(seq, 1, i - 1) \o SubSeq(seq, i + 1, Len(seq))

reverse(seq) == [i \in 1 .. Len(seq) |-> seq[Len(seq) + 1 - i]]

\* the walk over cameFrom from the goal, before it is reversed
RECURSIVE walkBack(_, _)
walkBack(cameFrom, current) ==
    IF current \in DOMAIN cameFrom
    THEN << current >> \o walkBack(cameFrom, cameFrom[current])
    ELSE << >>

reconstructPath(cameFrom, current) == reverse(walkBack(cameFrom, current))

\* the penalty, times 10, for entering a cell against its flow
flowPenalty(k, neighbor, dx, dy) ==
    LET against(neighborDirection) ==
            \/ (neighborDirection = "Right" /\ dx < 0)
            \/ (neighborDirection = "Left" /\ dx > 0)
            \/ (neighborDirection = "Up" /\ dy < 0)
            \/ (neighborDirection = "Down" /\ dy > 0)
    IN  IF against(getRoadDirection(k, neighbor)) THEN 1500 ELSE 0

\* whether the search skips a successor
skipNeighbor(k, visited, neighbor) == neighbor \in visited \/ ~isValidRoad(k, neighbor)

\* whether a successor's tentative cost replaces the recorded one
improves(gScore, neighbor, tentativeG) ==
    neighbor \notin DOMAIN gScore \/ tentativeG < gScore[neighbor]

\* the body of "for dx, dy, moveCost in allowedMoves" for one move
evaluateMove(w, end, avoidCars, current, mv, st) ==
    LET neighbor == << current[1] + mv[1], current[2] + mv[2] >>
        record(tentativeG) ==
            IF improves(st.gScore, neighbor, tentativeG)
            THEN [st EXCEPT !.cameFrom = (neighbor :> current) @@ @,
                            !.gScore = (neighbor :> tentativeG) @@ @,
                            !.openSet = Append(@, << tentativeG + 10 * heuristic(neighbor, end),
                                                     neighbor >>)]
            ELSE st
    IN  IF skipNeighbor(w.cfg, st.visited, neighbor) THEN st
        ELSE record(st.gScore[current] + mv[3]
                    + getCellWeight(w, neighbor, avoidCars)
                    + flowPenalty(w.cfg, neighbor, mv[1], mv[2]))

RECURSIVE evaluateMoves(_, _, _, _, _, _)
evaluateMoves(w, end, avoidCars, current, moves, st) ==
    IF moves = << >> THEN st
    ELSE evaluateMoves(w, end, avoidCars, current, Tail(moves),
                       evaluateMove(w, end, avoidCars, current, Head(moves), st))

\* a faulty variant of goalReached: a node next to the goal ends the search
goalReachedNear(current, end) == heuristic(current, end) <= 1

\* whether the node taken from the open set ends the search
goalReached(current, end) == current = end

\* the while loop; the result carries the number of iterations made and the
\* cameFrom dictionary as the search left it
RECURSIVE searchLoop(_, _, _, _)
searchLoop(w, end, avoidCars, st) ==
    IF ~(st.openSet # << >> /\ st.iterations < maxIterations(w.cfg))
    THEN [path |-> << >>, iterations |-> st.iterations, cameFrom |-> st.cameFrom]
    ELSE LET minIdx == minIndex(st.openSet)
             current == st.openSet[minIdx][2]
             popped == [st EXCEPT !.iterations = @ + 1,
                                  !.openSet = removeAt(@, minIdx)]
         IN  IF goalReached(current, end)
             THEN [path |-> reconstructPath(st.cameFrom, current),
                   iterations |-> popped.iterations, cameFrom |-> st.cameFrom]
             ELSE LET orRight(currentDirection) ==
                          IF currentDirection = "None" THEN "Right" ELSE currentDirection
                      allowedMoves ==
                          getAllowedMoves(current, orRight(getRoadDirection(w.cfg, current)))
                  IN  searchLoop(w, end, avoidCars,
                                 evaluateMoves(w, end, avoidCars, current, allowedMoves,
                                               [popped EXCEPT !.visited = @ \cup {current}]))

\* findPath with the number of loop iterations it made
findPathRun(w, start, end, avoidCars) ==
    IF start = end THEN [path |-> << end >>, iterations |-> 0, cameFrom |-> << >>]
    ELSE searchLoop(w, end, avoidCars,
                    [openSet |-> << <<0, start>> >>,
                     cameFrom |-> << >>,
                     gScore |-> (start :> 0),
                     visited |-> {},
                     iterations |-> 0])

findPath(w, start, end, avoidCars) == findPathRun(w, start, end, avoidCars).path

-----------------------------------------------------------------------------
(* Car *)

patience == 2

recalculateThreshold == 5

maxUnjammingAttempts == 2

setCar(w, c, car) == [w EXCEPT !.cars[c] = car]

getMovementDirection(currentPos, nextPos) ==
    LET dx == nextPos[1] - currentPos[1]
        dy == nextPos[2] - currentPos[2]
    IN  IF dx # 0 /\ dy = 0 THEN (IF dx > 0 THEN "Right" ELSE "Left")
        ELSE IF dy # 0 /\ dx = 0 THEN (IF dy > 0 THEN "Up" ELSE "Down")
        ELSE IF Abs(dx) > Abs(dy) THEN (IF dx > 0 THEN "Right" ELSE "Left")
        ELSE (IF dy > 0 THEN "Up" ELSE "Down")

\* Car.__init__: road_direction at the spawn cell
getInitialDirection(k, pos) ==
    LET orRight(road_direction) ==
            IF road_direction # "None" /\ road_direction # "All" THEN road_direction ELSE "Right"
    IN  orRight(getRoadDirection(k, pos))

\* a faulty variant of otherCarIn: the occupancy test left out
noCarCheck(w, c, nextPos) == FALSE

\* whether another Car stands in the cell
otherCarIn(w, c, nextPos) == carsAt(w, nextPos) \ {c} # {}

\* whether the move keeps to the forward side of the direction checked
forwardOf(checkDirection, dx, dy) ==
    CASE checkDirection = "Right" -> ~(dx <= 0)
      [] checkDirection = "Left"  -> ~(dx >= 0)
      [] checkDirection = "Up"    -> ~(dy <= 0)
      [] checkDirection = "Down"  -> ~(dy >= 0)
      [] OTHER -> TRUE

\* the value canMoveTo returns
canMoveTo(w, c, nextPos, considerDirection) ==
    LET k == w.cfg
        currentPos == w.cars[c].pos
    IN  IF ~InBounds(k, nextPos) THEN FALSE
        ELSE IF hasDestination(k, nextPos) THEN ~hasObstacle(k, nextPos)
        ELSE IF hasObstacle(k, nextPos) THEN FALSE
        ELSE IF hasLight(k, nextPos) /\ ~w.lights[nextPos] THEN FALSE
        ELSE IF otherCarIn(w, c, nextPos) THEN FALSE
        ELSE IF ~forwardOf(considerDirection,
                           nextPos[1] - currentPos[1], nextPos[2] - currentPos[2]) THEN FALSE
        ELSE isMoveAllowedByRoad(k, currentPos, nextPos)

\* what one call of canMoveTo adds to totSemaforosFound
semaforosFound(w, nextPos) ==
    LET k == w.cfg
    IN  IF /\ InBounds(k, nextPos)
           /\ ~hasDestination(k, nextPos)
           /\ ~hasObstacle(k, nextPos)
           /\ hasLight(k, nextPos) /\ ~w.lights[nextPos]
        THEN 1 ELSE 0

\* the forward and diagonal-forward cells of a direction: (newDir, newPos, isDiagonal)
movimientos(pos, direction) ==
    LET x == pos[1]
        y == pos[2]
    IN  CASE direction = "Right" ->
               << <<"Right", <<x+1, y>>, FALSE>>, <<"Right", <<x+1, y+1>>, TRUE>>,
                  <<"Right", <<x+1, y-1>>, TRUE>> >>
          [] direction = "Left" ->
               << <<"Left", <<x-1, y>>, FALSE>>, <<"Left", <<x-1, y+1>>, TRUE>>,
                  <<"Left", <<x-1, y-1>>, TRUE>> >>
          [] direction = "Up" ->
               << <<"Up", <<x, y+1>>, FALSE>>, <<"Up", <<x+1, y+1>>, TRUE>>,
                  <<"Up", <<x-1, y+1>>, TRUE>> >>
          [] direction = "Down" ->
               << <<"Down", <<x, y-1>>, FALSE>>, <<"Down", <<x+1, y-1>>, TRUE>>,
                  <<"Down", <<x-1, y-1>>, TRUE>> >>
          [] OTHER -> << >>

\* a faulty variant of getValidForwardMoves: the candidates are not tested
forwardMovesUnchecked(w, c, useDirection) == movimientos(w.cars[c].pos, useDirection)

getValidForwardMoves(w, c, useDirection) ==
    SelectSeq(movimientos(w.cars[c].pos, useDirection),
              LAMBDA m : InBounds(w.cfg, m[2]) /\ isValidRoad(w.cfg, m[2]))

\* the first entry with the least distance (a stable sort, then element 0)
firstNearest(moves, destPos) ==
    LET i == CHOOSE i \in DOMAIN moves :
                 /\ \A j \in DOMAIN moves :
                        heuristic(moves[i][2], destPos) <= heuristic(moves[j][2], destPos)
                 /\ \A j \in 1 .. i - 1 :
                        heuristic(moves[j][2], destPos) > heuristic(moves[i][2], destPos)
    IN  moves[i]

\* findAlternativeMove() with fromDirection=None: found is FALSE for the result None
findAlternativeMove(w, c) ==
    LET checkDir == w.cars[c].dirActual
        destPos == w.cars[c].dest
        taken(move) == [found |-> TRUE, dir |-> move[1], pos |-> move[2]]
        pick(straightMoves, diagonalMoves) ==
            IF straightMoves # << >> THEN taken(firstNearest(straightMoves, destPos))
            ELSE IF diagonalMoves # << >> THEN taken(firstNearest(diagonalMoves, destPos))
            ELSE [found |-> FALSE, dir |-> "None", pos |-> w.cars[c].pos]
        split(open) == pick(SelectSeq(open, LAMBDA m : ~m[3]), SelectSeq(open, LAMBDA m : m[3]))
    IN  split(SelectSeq(getValidForwardMoves(w, c, checkDir),
                        LAMBDA m : canMoveTo(w, c, m[2], checkDir)))

\* what the canMoveTo calls of findAlternativeMove add to totSemaforosFound
RECURSIVE sumSemaforos(_, _)
sumSemaforos(w, moves) ==
    IF moves = << >> THEN 0
    ELSE semaforosFound(w, Head(moves)[2]) + sumSemaforos(w, Tail(moves))

alternativeSemaforos(w, c) ==
    sumSemaforos(w, getValidForwardMoves(w, c, w.cars[c].dirActual))

\* updateDirection, called after self.cell has been set
updateDirection(car, nextPos, newDirection) ==
    IF newDirection # "None"
    THEN [car EXCEPT !.dirActual = newDirection, !.nextDir = newDirection]
    ELSE LET dx == nextPos[1] - car.pos[1]
             dy == nextPos[2] - car.pos[2]
             dirActual == IF dx # 0 /\ dy = 0 THEN (IF dx > 0 THEN "Right" ELSE "Left")
                          ELSE IF dy # 0 /\ dx = 0 THEN (IF dy > 0 THEN "Up" ELSE "Down")
                          ELSE car.dirActual
             nextDir == IF car.path # << >> /\ car.pathIndex < Len(car.path)
                        THEN LET nextPathPos == car.path[car.pathIndex + 1]
                                 nextDx == nextPathPos[1] - nextPos[1]
                                 nextDy == nextPathPos[2] - nextPos[2]
                             IN  IF nextDx # 0 /\ nextDy = 0
                                 THEN (IF nextDx > 0 THEN "Right" ELSE "Left")
                                 ELSE IF nextDy # 0 /\ nextDx = 0
                                 THEN (IF nextDy > 0 THEN "Up" ELSE "Down")
                                 ELSE dirActual
                        ELSE dirActual
         IN  [car EXCEPT !.dirActual = dirActual, !.nextDir = nextDir]

\* a faulty variant of calculatePath: a failed search leaves the Car moving
calculatePathKeepsMoving(w, c) ==
    LET car == w.cars[c]
        store(path) ==
            setCar(w, c, [car EXCEPT !.path = path, !.pathIndex = 0,
                                     !.state = "moving", !.stuckCounter = 0])
        retry(path) ==
            IF path # << >> THEN store(path)
            ELSE store(findPath(w, car.pos, car.dest, FALSE))
    IN  retry(findPath(w, car.pos, car.dest, TRUE))

calculatePath(w, c) ==
    LET car == w.cars[c]
        store(path) ==
            IF path # << >>
            THEN setCar(w, c, [car EXCEPT !.path = path, !.pathIndex = 0,
                                          !.state = "moving", !.stuckCounter = 0])
            ELSE setCar(w, c, [car EXCEPT !.path = path, !.pathIndex = 0,
                                          !.state = "waiting", !.stuckCounter = @ + 1])
        retry(path) ==
            IF path # << >> THEN store(path)
            ELSE store(findPath(w, car.pos, car.dest, FALSE))
    IN  retry(findPath(w, car.pos, car.dest, TRUE))

\* Car(model, cell, unique_id, dest): the constructor, registered in model.agents
newCar(w, c, cell, dest) ==
    LET car == [ pos |-> cell, dest |-> dest, path |-> << >>, pathIndex |-> 0,
                 state |-> "calculating",
                 dirActual |-> getInitialDirection(w.cfg, cell),
                 nextDir |-> getInitialDirection(w.cfg, cell),
                 steps_taken |-> 0, stuckCounter |-> 0, waitCounter |-> 0,
                 unjammingAttempts |-> 0 ]
    IN  calculatePath([w EXCEPT !.cars = (c :> car) @@ @, !.agents = @ \cup {c}], c)

-----------------------------------------------------------------------------
(* Car.step *)

\* a faulty variant of arrive: remove() left out
arriveKeepsAgent(w, c) ==
    [w EXCEPT !.cars[c].state = "arrived",
              !.totCarsArrived = @ + 1,
              !.cars_arrived_this_step = @ + 1]

\* a faulty variant of arrive: totCarsArrived left as it was
arriveUncounted(w, c) ==
    [w EXCEPT !.cars[c].state = "arrived",
              !.cars_arrived_this_step = @ + 1,
              !.agents = @ \ {c}]

\* a faulty variant of arrive: every Car in the cell is taken out of the agents
arriveClearsCell(w, c) ==
    [w EXCEPT !.cars[c].state = "arrived",
              !.totCarsArrived = @ + 1,
              !.cars_arrived_this_step = @ + 1,
              !.agents = @ \ carsAt(w, w.cars[c].pos)]

\* state = "arrived", the counters, and remove()
arrive(w, c) ==
    [w EXCEPT !.cars[c].state = "arrived",
              !.totCarsArrived = @ + 1,
              !.cars_arrived_this_step = @ + 1,
              !.agents = @ \ {c}]

\* whether the Car is marked arrived in the cell it stands in
atDestinationCell(w, c) == hasDestination(w.cfg, w.cars[c].pos)

\* the move to the next cell of the stored path
moveAlongPath(w, c, nextPos) ==
    LET car == w.cars[c]
        moved == [car EXCEPT !.pos = nextPos,
                             !.pathIndex = @ + 1,
                             !.steps_taken = @ + 1,
                             !.stuckCounter = 0,
                             !.waitCounter = 0]
    IN  [w EXCEPT !.cars[c] = updateDirection(moved, nextPos, "None"),
                  !.totStepsTaken = @ + 1]

\* the lane change to the cell findAlternativeMove returned
moveAlternative(w, c, alternative) ==
    LET car == w.cars[c]
        moved == [car EXCEPT !.pos = alternative.pos,
                             !.steps_taken = @ + 1]
        turned == updateDirection(moved, alternative.pos, alternative.dir)
    IN  [w EXCEPT !.cars[c] = [turned EXCEPT !.stuckCounter = 0,
                                             !.waitCounter = 0,
                                             !.state = "moving"],
                  !.totStepsTaken = @ + 1]

hasNextPathCell(car) == car.path # << >> /\ car.pathIndex < Len(car.path)

nextPathCell(car) == car.path[car.pathIndex + 1]

\* canMoveTo(nextPos, considerDirection=moveDirection) for the next cell of the path
pathCellFree(w, c) ==
    canMoveTo(w, c, nextPathCell(w.cars[c]),
              getMovementDirection(w.cars[c].pos, nextPathCell(w.cars[c])))

\* the world after the failed canMoveTo call on the next path cell
afterPathCheck(w, c) ==
    [w EXCEPT !.totSemaforosFound = @ + semaforosFound(w, nextPathCell(w.cars[c]))]

\* the world after the canMoveTo calls of findAlternativeMove
afterAlternativeCheck(w, c) ==
    [w EXCEPT !.totSemaforosFound = @ + alternativeSemaforos(w, c)]

\* state "moving"; recalc is the outcome of random.random() < 0.1
stepMoving(w, c, recalc) ==
    LET car == w.cars[c]
        moved(wm) == IF atDestinationCell(wm, c) THEN arrive(wm, c) ELSE wm
        rerouted(wc) == setCar(wc, c, [wc.cars[c] EXCEPT !.stuckCounter = 0,
                                                         !.waitCounter = 0,
                                                         !.state = "moving"])
        sidestep(wa, alternative) ==
            IF alternative.found
            THEN moveAlternative(wa, c, alternative)
            ELSE IF wa.cars[c].stuckCounter >= recalculateThreshold
            THEN setCar(wa, c, [wa.cars[c] EXCEPT !.state = "unjamming",
                                                  !.unjammingAttempts = 0])
            ELSE setCar(wa, c, [wa.cars[c] EXCEPT !.state = "waiting"])
        blocked(wb) ==
            IF recalc
            THEN rerouted(calculatePath(wb, c))
            ELSE sidestep(afterAlternativeCheck(wb, c), findAlternativeMove(wb, c))
    IN  IF ~hasNextPathCell(car)
        THEN IF car.pos # car.dest
             THEN calculatePath(setCar(w, c, [car EXCEPT !.state = "calculating"]), c)
             ELSE w
        ELSE IF pathCellFree(w, c)
        THEN moved(moveAlongPath(w, c, nextPathCell(car)))
        ELSE blocked(setCar(afterPathCheck(w, c), c,
                            [car EXCEPT !.stuckCounter = @ + 1, !.waitCounter = @ + 1]))

\* a faulty variant of stuckTooLong: no patience at all
stuckTooLongAlways(car) == TRUE

\* whether a waiting Car that could not move goes on to unjamming
stuckTooLong(car) ==
    car.stuckCounter >= recalculateThreshold \/ car.waitCounter >= patience

\* state "waiting"
stepWaiting(w, c) ==
    LET ww == setCar(w, c, [w.cars[c] EXCEPT !.waitCounter = @ + 1])
        car == ww.cars[c]
        moved(wn) == IF atDestinationCell(wn, c) THEN arrive(wn, c) ELSE wn
        resumed(wm) == moved(setCar(wm, c, [wm.cars[c] EXCEPT !.state = "moving"]))
        sidestep(wa, alternative) ==
            IF alternative.found
            THEN moveAlternative(wa, c, alternative)
            ELSE IF stuckTooLong(wa.cars[c])
            THEN setCar(wa, c, [wa.cars[c] EXCEPT !.state = "unjamming",
                                                  !.unjammingAttempts = 0])
            ELSE wa
        blocked(wb) == sidestep(afterAlternativeCheck(wb, c), findAlternativeMove(wb, c))
    IN  IF hasNextPathCell(car) /\ pathCellFree(ww, c)
        THEN resumed(moveAlongPath(ww, c, nextPathCell(car)))
        ELSE blocked(IF hasNextPathCell(car) THEN afterPathCheck(ww, c) ELSE ww)

\* a faulty variant of attemptsUsedUp: the Car never gives up
attemptsNeverUsedUp(car) == FALSE

\* whether an unjamming Car that could not move recalculates and goes on
attemptsUsedUp(car) == car.unjammingAttempts > maxUnjammingAttempts

\* state "unjamming"
stepUnjamming(w, c) ==
    LET wu == setCar(w, c, [w.cars[c] EXCEPT !.unjammingAttempts = @ + 1])
        car == wu.cars[c]
        resumed(wm) == setCar(wm, c, [wm.cars[c] EXCEPT !.unjammingAttempts = 0,
                                                        !.state = "moving"])
        sidestepped(wm) == setCar(wm, c, [wm.cars[c] EXCEPT !.unjammingAttempts = 0])
        sidestep(wa, alternative) ==
            IF alternative.found
            THEN sidestepped(moveAlternative(wa, c, alternative))
            ELSE IF attemptsUsedUp(wa.cars[c])
            THEN [wa EXCEPT !.cars[c] =
                                [wa.cars[c] EXCEPT
                                    !.path = findPath(wa, car.pos, car.dest, FALSE),
                                    !.pathIndex = 0,
                                    !.stuckCounter = 0,
                                    !.waitCounter = 0,
                                    !.state = "moving"],
                            !.embotellamientos = @ + 1,
                            !.traffic_jams_this_step = @ + 1]
            ELSE wa
        blocked(wb) == sidestep(afterAlternativeCheck(wb, c), findAlternativeMove(wb, c))
    IN  IF hasNextPathCell(car) /\ pathCellFree(wu, c)
        THEN resumed(moveAlongPath(wu, c, nextPathCell(car)))
        ELSE blocked(IF hasNextPathCell(car) THEN afterPathCheck(wu, c) ELSE wu)

\* Car.step; recalc is the outcome of random.random() < 0.1, read only when blocked
carStep(w, c, recalc) ==
    IF w.cars[c].state = "arrived" THEN w
    ELSE IF atDestinationCell(w, c) THEN arrive(w, c)
    ELSE IF w.cars[c].state = "calculating" THEN calculatePath(w, c)
    ELSE IF w.cars[c].state = "moving" THEN stepMoving(w, c, recalc)
    ELSE IF w.cars[c].state = "waiting" THEN stepWaiting(w, c)
    ELSE IF w.cars[c].state = "unjamming" THEN stepUnjamming(w, c)
    ELSE w

-----------------------------------------------------------------------------
(* Traffic_Light.step *)

\* a faulty variant of lightStep: the light keeps its state
lightStays(w, pos) == w

lightStep(w, pos) ==
    IF w.steps % timeToChange(w.cfg, pos) = 0
    THEN [w EXCEPT !.lights[pos] = ~@]
    ELSE w

-----------------------------------------------------------------------------
(* CityModel.spawnCars and CityModel.step *)

cornerSize == 1

\* [(x, y) for x in range(x0, x1) for y in range(y0, y1)]
RECURSIVE region(_, _, _, _, _)
region(x, x1, y0, y, y1) ==
    IF x >= x1 THEN << >>
    ELSE IF y >= y1 THEN region(x + 1, x1, y0, y0, y1)
    ELSE << <<x, y>> >> \o region(x, x1, y0, y + 1, y1)

corners(k) ==
    << region(0, cornerSize, height(k) - cornerSize, height(k) - cornerSize, height(k)),
       region(width(k) - cornerSize, width(k), height(k) - cornerSize,
              height(k) - cornerSize, height(k)),
       region(0, cornerSize, 0, 0, cornerSize),
       region(width(k) - cornerSize, width(k), 0, 0, cornerSize) >>

\* a faulty variant of isEmptyRoad: the test for a Car in the cell left out
isRoadCell(w, coord) ==
    /\ InBounds(w.cfg, coord)
    /\ hasRoad(w.cfg, coord)

\* a faulty variant of isEmptyRoad: the test for a Road in the cell left out
isEmptyCell(w, coord) ==
    /\ InBounds(w.cfg, coord)
    /\ carsAt(w, coord) = {}

\* whether spawnCars lists a cell of a corner as free
isEmptyRoad(w, coord) ==
    /\ InBounds(w.cfg, coord)
    /\ hasRoad(w.cfg, coord)
    /\ carsAt(w, coord) = {}

emptyRoads(w, cornerCoords) == SelectSeq(cornerCoords, LAMBDA coord : isEmptyRoad(w, coord))

\* random.choice(seq) for the draw n
choice(seq, n) == seq[(n % Len(seq)) + 1]

\* one iteration of "for corner_index, cornerCoords in enumerate(corners)"
spawnCorner(w, cornerCoords, roadDraw, destDraw) ==
    IF emptyRoads(w, cornerCoords) # << >> /\ destinations(w.cfg) # << >>
    THEN LET spawnCell == choice(emptyRoads(w, cornerCoords), roadDraw)
             randomDestination == choice(destinations(w.cfg), destDraw)
             uid == w.agent_id_counter
             counted(wc) == [wc EXCEPT !.totCarsSpawned = @ + 1, !.carsSpawnedThisStep = @ + 1]
         IN  counted(newCar([w EXCEPT !.agent_id_counter = @ + 1], uid, spawnCell,
                            randomDestination))
    ELSE w

RECURSIVE spawnFrom(_, _, _, _)
spawnFrom(w, i, roadDraws, destDraws) ==
    IF i > Len(corners(w.cfg)) THEN w
    ELSE spawnFrom(spawnCorner(w, corners(w.cfg)[i], roadDraws[i], destDraws[i]),
                   i + 1, roadDraws, destDraws)

spawnCars(w, roadDraws, destDraws) == spawnFrom(w, 1, roadDraws, destDraws)

\* a faulty variant of isSpawnStep: the first tick left out
isSpawnStepNoFirst(w) == w.steps % w.cfg.spawnSteps = 0

\* whether the tick runs a spawn cycle
isSpawnStep(w) == (w.steps = 1) \/ (w.steps % w.cfg.spawnSteps = 0)

countActiveCars(w) == Cardinality(w.agents)

\* a faulty variant of stepBegin: the counts are taken before the spawn cycle
stepBeginCountsEarly(w, roadDraws, destDraws) ==
    LET w0 == [w EXCEPT !.steps = @ + 1,
                        !.cars_arrived_this_step = 0,
                        !.traffic_jams_this_step = 0,
                        !.carsBefore = countActiveCars(w),
                        !.embotellamientosBefore = w.embotellamientos]
        spawned(ws) ==
            IF isSpawnStep(ws) /\ ws.steps # 0 /\ ws.carsSpawnedThisStep < 1
            THEN [ws EXCEPT !.running = FALSE]
            ELSE [ws EXCEPT !.pc = "pass",
                            !.pendingCars = ws.agents,
                            !.pendingLights = LightCells(ws.cfg)]
    IN  spawned(IF isSpawnStep(w0)
                THEN spawnCars([w0 EXCEPT !.carsSpawnedThisStep = 0], roadDraws, destDraws)
                ELSE w0)

\* CityModel.step up to the agent pass (the step counter is advanced on entry)
stepBegin(w, roadDraws, destDraws) ==
    LET w0 == [w EXCEPT !.steps = @ + 1,
                        !.cars_arrived_this_step = 0,
                        !.traffic_jams_this_step = 0]
        spawned(ws) ==
            IF isSpawnStep(ws) /\ ws.steps # 0 /\ ws.carsSpawnedThisStep < 1
            THEN [ws EXCEPT !.running = FALSE]
            ELSE [ws EXCEPT !.carsBefore = countActiveCars(ws),
                            !.embotellamientosBefore = ws.embotellamientos,
                            !.pc = "pass",
                            !.pendingCars = ws.agents,
                            !.pendingLights = LightCells(ws.cfg)]
    IN  spawned(IF isSpawnStep(w0)
                THEN spawnCars([w0 EXCEPT !.carsSpawnedThisStep = 0], roadDraws, destDraws)
                ELSE w0)

\* one Car of the shuffled pass takes its step
passCar(w, c, recalc) == [carStep(w, c, recalc) EXCEPT !.pendingCars = @ \ {c}]

\* one Traffic_Light of the shuffled pass takes its step
passLight(w, pos) == [lightStep(w, pos) EXCEPT !.pendingLights = @ \ {pos}]

\* the end of CityModel.step: the per-tick deltas
stepEnd(w) ==
    [w EXCEPT !.cars_arrived_this_step = w.carsBefore - countActiveCars(w),
              !.traffic_jams_this_step = w.embotellamientos - w.embotellamientosBefore,
              !.pc = "idle"]

\* the "Average Steps Per Car" reporter, as the fraction num / den
averageStepsPerCar(w) ==
    IF w.totCarsArrived > 0
    THEN [num |-> w.totStepsTaken, den |-> w.totCarsArrived]
    ELSE [num |-> 0, den |-> 1]

\* the cumulative model reporters of the DataCollector
modelReporters(w) ==
    [ totalCarsArrived |-> w.totCarsArrived,
      trafficJams |-> w.embotellamientos,
      averageStepsPerCar |-> averageStepsPerCar(w) ]

-----------------------------------------------------------------------------
(* The run of one model *)

initialWorld(k) ==
    [ cfg |-> k, steps |-> 0, running |-> TRUE,
      lights |-> [pos \in LightCells(k) |-> initialLightState(k, pos)],
      cars |-> << >>, agents |-> {}, agent_id_counter |-> fixedAgentCount(k),
      totCarsSpawned |-> 0, carsSpawnedThisStep |-> 0, totCarsArrived |-> 0,
      totStepsTaken |-> 0, totSemaforosFound |-> 0, embotellamientos |-> 0,
      cars_arrived_this_step |-> 0, traffic_jams_this_step |-> 0,
      pc |-> "idle", pendingCars |-> {}, pendingLights |-> {},
      carsBefore |-> 0, embotellamientosBefore |-> 0 ]

Install(n) ==
    /\ cfg' = n.cfg
    /\ steps' = n.steps
    /\ running' = n.running
    /\ lights' = n.lights
    /\ cars' = n.cars
    /\ agents' = n.agents
    /\ agent_id_counter' = n.agent_id_counter
    /\ totCarsSpawned' = n.totCarsSpawned
    /\ carsSpawnedThisStep' = n.carsSpawnedThisStep
    /\ totCarsArrived' = n.totCarsArrived
    /\ totStepsTaken' = n.totStepsTaken
    /\ totSemaforosFound' = n.totSemaforosFound
    /\ embotellamientos' = n.embotellamientos
    /\ cars_arrived_this_step' = n.cars_arrived_this_step
    /\ traffic_jams_this_step' = n.traffic_jams_this_step
    /\ pc' = n.pc
    /\ pendingCars' = n.pendingCars
    /\ pendingLights' = n.pendingLights
    /\ carsBefore' = n.carsBefore
    /\ embotellamientosBefore' = n.embotellamientosBefore

Start(n) ==
    /\ cfg = n.cfg
    /\ steps = n.steps
    /\ running = n.running
    /\ lights = n.lights
    /\ cars = n.cars
    /\ agents = n.agents
    /\ agent_id_counter = n.agent_id_counter
    /\ totCarsSpawned = n.totCarsSpawned
    /\ carsSpawnedThisStep = n.carsSpawnedThisStep
    /\ totCarsArrived = n.totCarsArrived
    /\ totStepsTaken = n.totStepsTaken
    /\ totSemaforosFound = n.totSemaforosFound
    /\ embotellamientos = n.embotellamientos
    /\ cars_arrived_this_step = n.cars_arrived_this_step
    /\ traffic_jams_this_step = n.traffic_jams_this_step
    /\ pc = n.pc
    /\ pendingCars = n.pendingCars
    /\ pendingLights = n.pendingLights
    /\ carsBefore = n.carsBefore
    /\ embotellamientosBefore = n.embotellamientosBefore

NoCall == [path |-> << >>, iterations |-> 0, cameFrom |-> << >>]

Idle ==
    /\ fpStart = <<0, 0>>
    /\ fpEnd = <<0, 0>>
    /\ fpAvoid = FALSE
    /\ fpResult = NoCall
    /\ rdPos = <<0, 0>>
    /\ rdResult = "None"
    /\ maCurrent = <<0, 0>>
    /\ maNext = <<0, 0>>
    /\ maResult = FALSE

NoHistory ==
    /\ trail = << >>
    /\ atTickStart = modelReporters(initialWorld(Configs[1]))

Init ==
    /\ \E i \in RunConfigs : \E k \in Loaded(i) : Start(initialWorld(k))
    /\ twin = initialWorld(Configs[1])
    /\ Idle
    /\ NoHistory

\* the draws of model.random.choice in one spawn cycle
RoadDraws == [1 .. 4 -> 0 .. cornerSize * cornerSize - 1]

DestDraws(k) == [1 .. 4 -> 0 .. (IF destinations(k) = << >> THEN 0 ELSE Len(destinations(k)) - 1)]

\* the /update route calls CityModel.step
StepBegin ==
    /\ pc = "idle"
    /\ steps < MaxTick
    /\ \E roadDraws \in RoadDraws, destDraws \in DestDraws(cfg) :
           Install(stepBegin(W, roadDraws, destDraws))
    /\ atTickStart' = modelReporters(W)
    /\ UNCHANGED <<twin, fpVars, trail>>

CarStep ==
    /\ pc = "pass"
    /\ \E c \in pendingCars, recalc \in BOOLEAN : Install(passCar(W, c, recalc))
    /\ UNCHANGED <<twin, fpVars, histVars>>

LightStep ==
    /\ pc = "pass"
    /\ \E pos \in pendingLights : Install(passLight(W, pos))
    /\ UNCHANGED <<twin, fpVars, histVars>>

StepEnd ==
    /\ pc = "pass"
    /\ pendingCars = {}
    /\ pendingLights = {}
    /\ Install(stepEnd(W))
    /\ UNCHANGED <<twin, fpVars, histVars>>

Next == StepBegin \/ CarStep \/ LightStep \/ StepEnd

Spec == Init /\ [][Next]_vars

-----------------------------------------------------------------------------
(* findPath on its own: one call on a map with some cars standing on it *)

ValidCells(k) == {pos \in Cells(k) : isValidRoad(k, pos)}

\* the ways of standing up to MaxPlaced cars on distinct road cells
Placements(k) ==
    UNION { {p \in [1 .. n -> ValidCells(k)] : \A i, j \in 1 .. n : i # j => p[i] # p[j]} :
            n \in 0 .. MaxPlaced }

\* a Car standing in a cell, as the search sees it
parkedCar(k, pos) ==
    [ pos |-> pos, dest |-> pos, path |-> << >>, pathIndex |-> 0, state |-> "waiting",
      dirActual |-> getInitialDirection(k, pos), nextDir |-> getInitialDirection(k, pos),
      steps_taken |-> 0, stuckCounter |-> 0, waitCounter |-> 0, unjammingAttempts |-> 0 ]

parkedWorld(k, p) ==
    [initialWorld(k) EXCEPT
        !.cars = [c \in fixedAgentCount(k) .. fixedAgentCount(k) + Len(p) - 1 |->
                      parkedCar(k, p[c - fixedAgentCount(k) + 1])],
        !.agents = fixedAgentCount(k) .. fixedAgentCount(k) + Len(p) - 1,
        !.agent_id_counter = fixedAgentCount(k) + Len(p),
        !.pc = "call"]

InitPath ==
    /\ \E i \in ConfigIds : \E k \in Loaded(i) : \E p \in Placements(k) : Start(parkedWorld(k, p))
    /\ twin = initialWorld(Configs[1])
    /\ fpStart \in Cells(cfg)
    /\ fpEnd \in Cells(cfg)
    /\ fpAvoid \in BOOLEAN
    /\ fpResult = NoCall
    /\ rdPos = <<0, 0>>
    /\ rdResult = "None"
    /\ maCurrent = <<0, 0>>
    /\ maNext = <<0, 0>>
    /\ maResult = FALSE
    /\ NoHistory

FindPathCall ==
    /\ pc = "call"
    /\ fpResult' = findPathRun(W, fpStart, fpEnd, fpAvoid)
    /\ pc' = "done"
    /\ UNCHANGED <<cfg, steps, running, lights, cars, agents, agent_id_counter,
                   totCarsSpawned, carsSpawnedThisStep, totCarsArrived, totStepsTaken,
                   totSemaforosFound, embotellamientos, cars_arrived_this_step,
                   traffic_jams_this_step, pendingCars, pendingLights,
                   carsBefore, embotellamientosBefore, twin, fpStart, fpEnd, fpAvoid,
                   rdPos, rdResult, maCurrent, maNext, maResult, histVars>>

NextPath == FindPathCall

SpecPath == InitPath /\ [][NextPath]_vars

-----------------------------------------------------------------------------
(* getRoadDirection on its own: one call for a cell of the map or a cell   *)
(* just outside it                                                          *)

\* the cells of the map and the ring of cells around it
Queried(k) == (-1 .. width(k)) \X (-1 .. height(k))

InitDir ==
    /\ \E i \in ConfigIds : \E k \in Loaded(i) :
           Start([initialWorld(k) EXCEPT !.pc = "query"])
    /\ twin = initialWorld(Configs[1])
    /\ fpStart = <<0, 0>>
    /\ fpEnd = <<0, 0>>
    /\ fpAvoid = FALSE
    /\ fpResult = NoCall
    /\ rdPos \in Queried(cfg)
    /\ rdResult = "None"
    /\ maCurrent = <<0, 0>>
    /\ maNext = <<0, 0>>
    /\ maResult = FALSE
    /\ NoHistory

GetRoadDirectionCall ==
    /\ pc = "query"
    /\ rdResult' = getRoadDirection(cfg, rdPos)
    /\ pc' = "answered"
    /\ UNCHANGED <<cfg, steps, running, lights, cars, agents, agent_id_counter,
                   totCarsSpawned, carsSpawnedThisStep, totCarsArrived, totStepsTaken,
                   totSemaforosFound, embotellamientos, cars_arrived_this_step,
                   traffic_jams_this_step, pendingCars, pendingLights,
                   carsBefore, embotellamientosBefore, twin, fpStart, fpEnd, fpAvoid,
                   fpResult, rdPos, maCurrent, maNext, maResult, histVars>>

NextDir == GetRoadDirectionCall

SpecDir == InitDir /\ [][NextDir]_vars

-----------------------------------------------------------------------------
(* isMoveAllowedByRoad on its own: one call for a pair of cells of the map *)

InitMove ==
    /\ \E i \in ConfigIds : \E k \in Loaded(i) :
           Start([initialWorld(k) EXCEPT !.pc = "ask"])
    /\ twin = initialWorld(Configs[1])
    /\ fpStart = <<0, 0>>
    /\ fpEnd = <<0, 0>>
    /\ fpAvoid = FALSE
    /\ fpResult = NoCall
    /\ rdPos = <<0, 0>>
    /\ rdResult = "None"
    /\ maCurrent \in Cells(cfg)
    /\ maNext \in Cells(cfg)
    /\ maResult = FALSE
    /\ NoHistory

IsMoveAllowedByRoadCall ==
    /\ pc = "ask"
    /\ maResult' = isMoveAllowedByRoad(cfg, maCurrent, maNext)
    /\ pc' = "told"
    /\ UNCHANGED <<cfg, steps, running, lights, cars, agents, agent_id_counter,
                   totCarsSpawned, carsSpawnedThisStep, totCarsArrived, totStepsTaken,
                   totSemaforosFound, embotellamientos, cars_arrived_this_step,
                   traffic_jams_this_step, pendingCars, pendingLights,
                   carsBefore, embotellamientosBefore, twin, fpStart, fpEnd, fpAvoid,
                   fpResult, rdPos, rdResult, maCurrent, maNext, histVars>>

NextMove == IsMoveAllowedByRoadCall

SpecMove == InitMove /\ [][NextMove]_vars

-----------------------------------------------------------------------------
(* Two runs of the model given the same seed: every draw of model.random    *)
(* (the shuffle, the spawn cell, the destination) is the same in both; the  *)
(* draws of the module-level random generator are each run's own.           *)

InitTwin ==
    /\ \E k \in TwinConfigs : Start(initialWorld(Configs[k]))
    /\ twin = initialWorld(cfg)
    /\ Idle
    /\ NoHistory

TwinStepBegin ==
    /\ pc = "idle"
    /\ twin.pc = "idle"
    /\ steps < MaxTick
    /\ \E roadDraws \in RoadDraws, destDraws \in DestDraws(cfg) :
           /\ Install(stepBegin(W, roadDraws, destDraws))
           /\ twin' = stepBegin(twin, roadDraws, destDraws)
    /\ UNCHANGED <<fpVars, histVars>>

TwinCarStep ==
    /\ \E c \in pendingCars \cup twin.pendingCars, recalc, recalcTwin \in BOOLEAN :
           /\ Install(IF c \in pendingCars THEN passCar(W, c, recalc) ELSE W)
           /\ twin' = IF c \in twin.pendingCars THEN passCar(twin, c, recalcTwin) ELSE twin
    /\ UNCHANGED <<fpVars, histVars>>

TwinLightStep ==
    /\ \E pos \in pendingLights \cup twin.pendingLights :
           /\ Install(IF pos \in pendingLights THEN passLight(W, pos) ELSE W)
           /\ twin' = IF pos \in twin.pendingLights THEN passLight(twin, pos) ELSE twin
    /\ UNCHANGED <<fpVars, histVars>>

TwinStepEnd ==
    /\ pc = "pass" \/ twin.pc = "pass"
    /\ pendingCars = {} /\ pendingLights = {}
    /\ twin.pendingCars = {} /\ twin.pendingLights = {}
    /\ Install(IF pc = "pass" THEN stepEnd(W) ELSE W)
    /\ twin' = IF twin.pc = "pass" THEN stepEnd(twin) ELSE twin
    /\ UNCHANGED <<fpVars, histVars>>

NextTwin == TwinStepBegin \/ TwinCarStep \/ TwinLightStep \/ TwinStepEnd

SpecTwin == InitTwin /\ [][NextTwin]_vars

-----------------------------------------------------------------------------
(* The run on a closed cycle, with the cell and the state of each Car      *)
(* recorded after its construction and after each of its steps             *)

InitLoop ==
    /\ \E k \in LoopConfigs : Start(initialWorld(Configs[k]))
    /\ twin = initialWorld(Configs[1])
    /\ Idle
    /\ NoHistory

LoopStepBegin ==
    /\ pc = "idle"
    /\ steps < MaxLoopTick
    /\ \E roadDraws \in RoadDraws, destDraws \in DestDraws(cfg) :
           Install(stepBegin(W, roadDraws, destDraws))
    /\ trail' = [c \in DOMAIN cars' |->
                     IF c \in DOMAIN trail THEN trail[c]
                     ELSE << [pos |-> cars'[c].pos, state |-> cars'[c].state] >>]
    /\ atTickStart' = modelReporters(W)
    /\ UNCHANGED <<twin, fpVars>>

LoopCarStep ==
    /\ pc = "pass"
    /\ \E c \in pendingCars, recalc \in BOOLEAN :
           /\ Install(passCar(W, c, recalc))
           /\ trail' = [trail EXCEPT ![c] = Append(@, [pos |-> cars'[c].pos,
                                                         state |-> cars'[c].state])]
    /\ UNCHANGED <<twin, fpVars, atTickStart>>

NextLoop == LoopStepBegin \/ LoopCarStep \/ LightStep \/ StepEnd

SpecLoop == InitLoop /\ [][NextLoop]_vars

-----------------------------------------------------------------------------
(* The run in which ticks keep being executed and every agent of a pass    *)
(* takes its step                                                           *)

InitLive ==
    /\ \E i \in LiveConfigs : \E k \in Loaded(i) : Start(initialWorld(k))
    /\ twin = initialWorld(Configs[1])
    /\ Idle
    /\ NoHistory

NextLive == LoopStepBegin \/ LoopCarStep \/ LightStep \/ StepEnd

\* the scheduling of a run: /update calls CityModel.step again after every tick,
\* the agent pass calls step on every agent it holds, and the tick then ends
TickCalled == pc = "idle" /\ steps < MaxLoopTick /\ steps' = steps + 1

CarCalled == pc = "pass" /\ \E c \in pendingCars : pendingCars' = pendingCars \ {c}

LightCalled == pc = "pass" /\ \E pos \in pendingLights : pendingLights' = pendingLights \ {pos}

PassEnded == pc = "pass" /\ pendingCars = {} /\ pendingLights = {} /\ pc' = "idle"

SpecLive ==
    /\ InitLive
    /\ [][NextLive]_vars
    /\ WF_steps(TickCalled)
    /\ WF_pendingCars(CarCalled)
    /\ WF_pendingLights(LightCalled)
    /\ WF_pc(PassEnded)

-----------------------------------------------------------------------------
(* Properties *)

\* C1: at every tick boundary, totCarsArrived plus the number of live Car
\* agents equals totCarsSpawned.
C1_ArrivalConservation ==
    pc = "idle" => totCarsArrived + Cardinality(agents) = totCarsSpawned

\* a tick boundary with a Car that has arrived and a Car still on the grid
C1_ArrivedAndLive ==
    /\ pc = "idle"
    /\ steps > 0
    /\ totCarsArrived > 0
    /\ agents # {}

\* C2: in every reachable state, the states between two agents' steps of a
\* tick included, two live Cars stand in the same cell only if the cell
\* holds a Destination.
C2_OneCarPerCell ==
    \A c1, c2 \in agents :
        (c1 # c2 /\ cars[c1].pos = cars[c2].pos) => hasDestination(cfg, cars[c1].pos)

\* the middle of a pass: a Car has taken its step and was held back by a Car
\* that stands in the next cell of its path and has not stepped yet
C2_BlockedByCar ==
    /\ pc = "pass"
    /\ \E c1, c2 \in agents :
           /\ c1 # c2
           /\ c1 \in pendingCars
           /\ c2 \notin pendingCars
           /\ hasNextPathCell(cars[c2])
           /\ nextPathCell(cars[c2]) = cars[c1].pos
           /\ ~hasDestination(cfg, cars[c1].pos)
           /\ cars[c2].stuckCounter > 0

\* C3: after t calls of CityModel.step a traffic light with cycle length L
\* and initial state s0 is in the state s0 XOR (floor(t / L) is odd).
C3_LightSchedule ==
    pc = "idle" =>
        \A pos \in LightCells(cfg) :
            lights[pos] = (initialLightState(cfg, pos)
                           # ((steps \div timeToChange(cfg, pos)) % 2 = 1))

\* C4: two runs with the same seed, stepped the same number of ticks, have
\* identical metric values and identical Car states.
C4_SameSeedSameRun ==
    (pc = "idle" /\ twin.pc = "idle") =>
        /\ twin.cars = cars
        /\ twin.agents = agents
        /\ twin.totCarsSpawned = totCarsSpawned
        /\ twin.totCarsArrived = totCarsArrived
        /\ twin.totStepsTaken = totStepsTaken
        /\ twin.totSemaforosFound = totSemaforosFound
        /\ twin.embotellamientos = embotellamientos

\* C5 (as amended): for start # end, every non-empty path findPath returns is
\* a sequence of in-bounds, obstacle-free cells, each one of the 8 neighbours
\* of its predecessor (start for the first) and allowed from it by
\* isMoveAllowedByRoad, and the last is end.
C5_PathLegal ==
    (pc = "done" /\ fpStart # fpEnd /\ fpResult.path # << >>) =>
        LET path == fpResult.path
            pred(i) == IF i = 1 THEN fpStart ELSE path[i - 1]
        IN  /\ \A i \in DOMAIN path :
                   /\ InBounds(cfg, path[i])
                   /\ ~hasObstacle(cfg, path[i])
                   /\ path[i] # pred(i)
                   /\ Abs(path[i][1] - pred(i)[1]) <= 1
                   /\ Abs(path[i][2] - pred(i)[2]) <= 1
                   /\ isMoveAllowedByRoad(cfg, pred(i), path[i])
            /\ path[Len(path)] = fpEnd

\* a search between two different cells that returned a path of several steps
C5_LongPath ==
    /\ pc = "done"
    /\ fpStart # fpEnd
    /\ Len(fpResult.path) >= 3

\* C5 as stated, for every start and end: every non-empty path is in bounds,
\* obstacle-free, made of steps to one of the 8 neighbours (the first from
\* start) that isMoveAllowedByRoad allows, and ends at end.
C5_PathLegalAnyStart ==
    (pc = "done" /\ fpResult.path # << >>) =>
        LET path == fpResult.path
            pred(i) == IF i = 1 THEN fpStart ELSE path[i - 1]
        IN  /\ \A i \in DOMAIN path :
                   /\ InBounds(cfg, path[i])
                   /\ ~hasObstacle(cfg, path[i])
                   /\ path[i] # pred(i)
                   /\ Abs(path[i][1] - pred(i)[1]) <= 1
                   /\ Abs(path[i][2] - pred(i)[2]) <= 1
                   /\ isMoveAllowedByRoad(cfg, pred(i), path[i])
            /\ path[Len(path)] = fpEnd

\* C6: findPath terminates: it returns a path that ends at end, or the empty
\* path, after at most width * height * 25 expansions.
C6_SearchBounded ==
    pc = "done" =>
        /\ fpResult.iterations <= width(cfg) * height(cfg) * 25
        /\ \/ fpResult.path = << >>
           \/ fpResult.path[Len(fpResult.path)] = fpEnd

\* a search that gave up with the empty path after several expansions
C6_GaveUp ==
    /\ pc = "done"
    /\ fpStart # fpEnd
    /\ fpResult.path = << >>
    /\ fpResult.iterations > 1

\* C7: a tick sets running to False if and only if it is a spawn tick (tick 1
\* or a multiple of spawnSteps) whose spawn cycle constructed no Car; nothing
\* else in a tick changes running.
C7_FinishedIffEmptySpawn ==
    [][ /\ (pc = "idle" /\ steps' = steps + 1 /\ running) =>
               (~running' <=> /\ (steps' = 1 \/ steps' % cfg.spawnSteps = 0)
                              /\ DOMAIN cars' = DOMAIN cars)
        /\ (pc # "idle") => (running' = running) ]_vars

\* a run marked finished on a later spawn tick, with a Car still on the grid
C7_FinishedWithCars ==
    /\ ~running
    /\ pc = "idle"
    /\ steps > 1
    /\ steps % cfg.spawnSteps = 0
    /\ carsSpawnedThisStep = 0
    /\ agents # {}

\* C8: once the run is marked finished, a later call of the step entry point
\* changes no Car position, no traffic-light state and no cumulative metric,
\* and running is never set back to True.
C8_FinishedStaysStopped ==
    [][ ~running =>
            /\ ~running'
            /\ \A c \in DOMAIN cars : cars'[c].pos = cars[c].pos
            /\ lights' = lights
            /\ totCarsSpawned' = totCarsSpawned
            /\ totCarsArrived' = totCarsArrived
            /\ totStepsTaken' = totStepsTaken
            /\ totSemaforosFound' = totSemaforosFound
            /\ embotellamientos' = embotellamientos ]_vars

\* C9: a spawn cycle constructs exactly one Car, with a Destination of the
\* map, in every corner cell that holds a Road and no Car, provided the map
\* has a Destination, and none elsewhere: at most four Cars, never in a cell
\* that holds a Car, and the Cars and lights already there are left as they
\* were.  (Every corner region is one cell: cornerSize is 1.)
C9_SpawnCycle ==
    [][ (pc = "idle" /\ steps' = steps + 1) =>
            LET new == DOMAIN cars' \ DOMAIN cars
                cornerCells == { <<0, height(cfg) - 1>>, <<width(cfg) - 1, height(cfg) - 1>>,
                                 <<0, 0>>, <<width(cfg) - 1, 0>> }
                free == {pos \in cornerCells :
                             hasRoad(cfg, pos) /\ \A c \in agents : cars[c].pos # pos}
                expected == IF /\ (steps' = 1 \/ steps' % cfg.spawnSteps = 0)
                               /\ \E pos \in Cells(cfg) : hasDestination(cfg, pos)
                            THEN free ELSE {}
            IN  /\ Cardinality(new) <= 4
                /\ Cardinality(new) = Cardinality(expected)
                /\ {cars'[c].pos : c \in new} = expected
                /\ \A c \in new : hasDestination(cfg, cars'[c].dest)
                /\ agents' = agents \cup new
                /\ \A c \in DOMAIN cars : cars'[c] = cars[c]
                /\ lights' = lights
                /\ totCarsSpawned' = totCarsSpawned + Cardinality(new)
                /\ totCarsArrived' = totCarsArrived ]_vars

\* the pass of a spawn tick is about to start: the cycle constructed a Car
\* while an earlier Car was on the grid
C9_SpawnedBesideCar ==
    /\ pc = "pass"
    /\ pendingCars = agents
    /\ pendingLights = LightCells(cfg)
    /\ (steps = 1 \/ steps % cfg.spawnSteps = 0)
    /\ carsSpawnedThisStep = 1
    /\ Cardinality(agents) >= 2

\* C10: arrival is terminal and counted once: totCarsArrived is the number of
\* Cars in state "arrived", a Car is in that state exactly when it is out of
\* the live-agent set, a step of an arrived Car changes nothing, and an
\* arrived Car is never changed again.
C10_ArrivalOnce ==
    /\ [](/\ totCarsArrived = Cardinality({c \in DOMAIN cars : cars[c].state = "arrived"})
          /\ \A c \in DOMAIN cars : (cars[c].state = "arrived") <=> (c \notin agents)
          /\ \A c \in DOMAIN cars :
                 cars[c].state = "arrived" =>
                     \A recalc \in BOOLEAN : carStep(W, c, recalc) = W)
    /\ [][ \A c \in DOMAIN cars :
               cars[c].state = "arrived" => cars'[c] = cars[c] ]_vars

\* a pass of a later tick is under way while a Car that arrived in an earlier
\* tick is kept out of it
C10_ArrivedEarlier ==
    /\ pc = "pass"
    /\ cars_arrived_this_step = 0
    /\ \E c \in DOMAIN cars : cars[c].state = "arrived" /\ c \notin agents
    /\ agents # {}

\* C11: every tick that starts runs the agent pass with every live agent
\* (the Cars spawned in the tick and the traffic lights included) due to step
\* once; no tick, the one that marks the run finished included, is cut short.
C11_EveryAgentSteps ==
    [][ (pc = "idle" /\ steps' = steps + 1) =>
            /\ pendingCars' = agents'
            /\ pendingLights' = LightCells(cfg) ]_vars

C13_LoopRecovery ==
    (pc = "idle" /\ steps >= 20 /\ cfg = Configs[8]) =>
        \A c \in DOMAIN trail :
            \E i \in DOMAIN trail[c] : trail[c][i].state = "inLoop"

\* C14: on the straight road of five cells (configuration 7: the light of
\* cycle 2 starts closed at index 2, the destination is at index 4) a Car
\* enters the light's cell only in a step that finds the light open, a Car
\* that steps next to the light while it is open moves into the light's
\* cell and is moving, and the Car spawned in tick 1 has arrived when tick 6
\* ends, whatever the order of the pass and the random draws.
C14_RoadScenario ==
    /\ [](( cfg = Configs[7] /\ pc = "idle" /\ steps >= 6) =>
               /\ fixedAgentCount(cfg) \in DOMAIN cars
               /\ cars[fixedAgentCount(cfg)].state = "arrived"
               /\ fixedAgentCount(cfg) \notin agents)
    /\ [][ cfg = Configs[7] =>
               \A c \in agents :
                   /\ (cars[c].pos # <<2, 0>> /\ cars'[c].pos = <<2, 0>>) => lights[<<2, 0>>]
                   /\ ( /\ c \in pendingCars /\ c \notin pendingCars'
                        /\ cars[c].pos = <<1, 0>>
                        /\ lights[<<2, 0>>] ) =>
                           (cars'[c].pos = <<2, 0>> /\ cars'[c].state = "moving") ]_vars

\* the road scenario ended with the Car arrived after the closed light had
\* held it back
C14_ArrivedAfterRedLight ==
    /\ cfg = Configs[7]
    /\ pc = "idle"
    /\ totCarsArrived = 1
    /\ totSemaforosFound > 0

\* C15: in every reachable state, the states between two agents' steps
\* included, every live Car stands in a cell of the grid that holds no
\* Obstacle.
C15_NoCarOnObstacle ==
    \A c \in agents :
        /\ InBounds(cfg, cars[c].pos)
        /\ glyphAt(cfg, cars[c].pos) # "#"

\* a Car that has moved stands with an Obstacle straight ahead and has been
\* held there
C15_FacingObstacle ==
    \E c \in agents :
        /\ cars[c].steps_taken > 0
        /\ cars[c].waitCounter > 0
        /\ LET ahead == movimientos(cars[c].pos, cars[c].dirActual)[1][2]
           IN  InBounds(cfg, ahead) /\ glyphAt(cfg, ahead) = "#"

\* a / b <= c / d for fractions with positive denominators
fractionLeq(x, y) == x.num * y.den <= y.num * x.den

\* C16: from the start of a tick to its end none of "Total Cars Arrived",
\* "Traffic Jams" and "Average Steps Per Car" decreases.
C16_CumulativeNeverDecrease ==
    pc = "idle" =>
        /\ atTickStart.totalCarsArrived <= modelReporters(W).totalCarsArrived
        /\ atTickStart.trafficJams <= modelReporters(W).trafficJams
        /\ fractionLeq(atTickStart.averageStepsPerCar, modelReporters(W).averageStepsPerCar)

\* the sum of steps_taken over a set of Cars
RECURSIVE stepsTakenBy(_)
stepsTakenBy(cs) ==
    IF cs = {} THEN 0
    ELSE LET c == CHOOSE c \in cs : TRUE
         IN  cars[c].steps_taken + stepsTakenBy(cs \ {c})

\* C17: at every tick boundary "Average Steps Per Car" is the sum of
\* steps_taken of the Cars that have arrived divided by totCarsArrived, and 0
\* when no Car has arrived.
C17_AverageOverArrived ==
    pc = "idle" =>
        LET arrivedCars == {c \in DOMAIN cars : cars[c].state = "arrived"}
            average == averageStepsPerCar(W)
        IN  IF totCarsArrived = 0
            THEN average.num = 0
            ELSE average.num * totCarsArrived = stepsTakenBy(arrivedCars) * average.den

\* whether the Car takes its step in the transition
takesStep(c) == pc = "pass" /\ c \in pendingCars /\ c \notin pendingCars'

\* whether the next cell of the Car's path holds a traffic light
lightAhead(c) == hasNextPathCell(cars[c]) /\ hasLight(cfg, nextPathCell(cars[c]))

\* C18: a moving Car whose next path cell holds a closed traffic light keeps
\* its cell in that step and is waiting after it.
C18_StopsAtRedLight ==
    [][ \A c \in agents :
            ( /\ takesStep(c)
              /\ cars[c].state = "moving"
              /\ ~hasDestination(cfg, cars[c].pos)
              /\ lightAhead(c)
              /\ ~lights[nextPathCell(cars[c])] ) =>
                /\ cars'[c].pos = cars[c].pos
                /\ cars'[c].state = "waiting" ]_vars

\* C19: a Car held (waiting or unjamming) with a traffic light in the next
\* cell of its path keeps its cell, path and path cursor in a step that finds
\* the light closed, and in a step that finds the light open and no Car in
\* its cell moves into that cell with the path kept and the cursor advanced
\* by one.
C19_WaitsForGreen ==
    [][ \A c \in agents :
            ( /\ takesStep(c)
              /\ cars[c].state \in {"waiting", "unjamming"}
              /\ ~hasDestination(cfg, cars[c].pos)
              /\ lightAhead(c) ) =>
                IF ~lights[nextPathCell(cars[c])]
                THEN /\ cars'[c].pos = cars[c].pos
                     /\ cars'[c].path = cars[c].path
                     /\ cars'[c].pathIndex = cars[c].pathIndex
                ELSE otherCarIn(W, c, nextPathCell(cars[c])) \/
                     /\ cars'[c].pos = nextPathCell(cars[c])
                     /\ cars'[c].path = cars[c].path
                     /\ cars'[c].pathIndex = cars[c].pathIndex + 1 ]_vars

\* C20: path calculation ends in one of two ways.  A Car constructed by
\* the spawn cycle, and a moving Car that steps with its path used up, has
\* its cursor at 0 afterwards; if the search found a path the Car is moving
\* on a path that ends at its destination with stuckCounter 0; if the search
\* found none the Car is waiting in the same cell with an empty path and
\* stuckCounter one higher.
C20_PathCalculation ==
    [][ /\ \A c \in DOMAIN cars' \ DOMAIN cars :
               LET car == cars'[c]
                   found == findPath(W, car.pos, car.dest, FALSE) # << >>
               IN  /\ car.pathIndex = 0
                   /\ found => /\ car.state = "moving"
                               /\ car.path # << >>
                               /\ car.path[Len(car.path)] = car.dest
                               /\ car.stuckCounter = 0
                   /\ ~found => /\ car.state = "waiting"
                                /\ car.path = << >>
                                /\ car.stuckCounter = 1
        /\ \A c \in agents :
               ( /\ takesStep(c)
                 /\ cars[c].state = "moving"
                 /\ ~hasDestination(cfg, cars[c].pos)
                 /\ ~hasNextPathCell(cars[c])
                 /\ cars[c].pos # cars[c].dest ) =>
                   LET car == cars'[c]
                       found == findPath(W, cars[c].pos, cars[c].dest, FALSE) # << >>
                   IN  /\ car.pathIndex = 0
                       /\ car.pos = cars[c].pos
                       /\ found => /\ car.state = "moving"
                                   /\ car.path # << >>
                                   /\ car.path[Len(car.path)] = car.dest
                                   /\ car.stuckCounter = 0
                       /\ ~found => /\ car.state = "waiting"
                                    /\ car.path = << >>
                                    /\ car.stuckCounter = cars[c].stuckCounter + 1 ]_vars

\* a Car that had moved stepped with its path used up, the search found no
\* path and the Car is waiting
C20_SearchFailed ==
    /\ pc = "pass"
    /\ \E c \in agents \ pendingCars :
           /\ cars[c].state = "waiting"
           /\ cars[c].path = << >>
           /\ cars[c].steps_taken > 0
           /\ cars[c].stuckCounter = 1
           /\ cars[c].waitCounter = 0

\* whether the next cell of the Car's path is refused because another Car
\* stands in it
carAhead(c) ==
    /\ hasNextPathCell(cars[c])
    /\ otherCarIn(W, c, nextPathCell(cars[c]))
    /\ ~pathCellFree(W, c)

\* C21: a moving Car whose next path cell is occupied by another Car either
\* changes lane (when a lane change is possible): it relocates to the cell
\* found, is moving and its path cursor has advanced by one on the same path;
\* or (when none is possible) keeps its cell, is waiting and its blocked-tick
\* counter is one higher.
C21_LaneChangeOrWait ==
    [][ \A c \in agents :
            ( /\ takesStep(c)
              /\ cars[c].state = "moving"
              /\ ~hasDestination(cfg, cars[c].pos)
              /\ carAhead(c) ) =>
                IF findAlternativeMove(W, c).found
                THEN /\ cars'[c].pos = findAlternativeMove(W, c).pos
                     /\ cars'[c].state = "moving"
                     /\ cars'[c].path = cars[c].path
                     /\ cars'[c].pathIndex = cars[c].pathIndex + 1
                ELSE /\ cars'[c].pos = cars[c].pos
                     /\ cars'[c].state = "waiting"
                     /\ cars'[c].waitCounter = cars[c].waitCounter + 1 ]_vars

\* whether the Car's step in the transition is a lane change to a diagonal
\* cell: the Car relocates off its path, the cursor left as it was
diagonalLaneChange(c) ==
    /\ takesStep(c)
    /\ cars'[c].pathIndex = cars[c].pathIndex
    /\ cars'[c].path = cars[c].path
    /\ cars'[c].pos[1] # cars[c].pos[1]
    /\ cars'[c].pos[2] # cars[c].pos[2]

\* the cell straight ahead of a cell, along the cell's own road direction
forwardNeighbour(k, pos) == movimientos(pos, getRoadDirection(k, pos))[1][2]

\* C22: every diagonal lane change goes to a cell that carries the road
\* direction of the cell left (or holds a traffic light or a Destination),
\* holds no other Car, and has no Car in the cell straight ahead of it.
C22_LaneChangeTarget ==
    [][ \A c \in agents :
            diagonalLaneChange(c) =>
                LET from == cars[c].pos
                    target == cars'[c].pos
                IN  /\ \/ hasRoad(cfg, target)
                          /\ getRoadDirection(cfg, target) = getRoadDirection(cfg, from)
                       \/ hasLight(cfg, target)
                       \/ hasDestination(cfg, target)
                    /\ carsAt(W, target) \ {c} = {}
                    /\ carsAt(W, forwardNeighbour(cfg, target)) \ {c} = {} ]_vars

\* whether the Car can move in its step: into the next cell of its path or
\* into a forward or diagonal-forward cell
canMove(c) ==
    \/ hasNextPathCell(cars[c]) /\ pathCellFree(W, c)
    \/ findAlternativeMove(W, c).found

\* C23: a waiting Car retries the move in each of its steps: when it can
\* move it goes to the next cell of its path if that is free and to the
\* forward or diagonal-forward cell found otherwise, and is no longer
\* waiting; when it cannot move it keeps its cell with its blocked-tick
\* counter (waitCounter) one higher, and it is unjamming exactly when the
\* counter has reached patience and waiting otherwise.
C23_WaitingPatience ==
    [][ \A c \in agents :
            ( /\ takesStep(c)
              /\ cars[c].state = "waiting"
              /\ ~hasDestination(cfg, cars[c].pos) ) =>
                IF canMove(c)
                THEN /\ cars'[c].pos # cars[c].pos
                     /\ cars'[c].pos = IF hasNextPathCell(cars[c]) /\ pathCellFree(W, c)
                                       THEN nextPathCell(cars[c])
                                       ELSE findAlternativeMove(W, c).pos
                     /\ cars'[c].state \in {"moving", "arrived"}
                ELSE /\ cars'[c].pos = cars[c].pos
                     /\ cars'[c].waitCounter = cars[c].waitCounter + 1
                     /\ cars'[c].state = IF cars'[c].waitCounter >= patience
                                         THEN "unjamming" ELSE "waiting" ]_vars

\* a waiting Car that had moved before took a step in which it could not
\* move and is still waiting, its counter below patience
C23_StillWaiting ==
    /\ pc = "pass"
    /\ \E c \in agents \ pendingCars :
           /\ cars[c].state = "waiting"
           /\ cars[c].waitCounter = 1
           /\ cars[c].steps_taken > 0
           /\ cars[c].path = << >>

\* the world of the state the transition leads to
Wnext == [W EXCEPT !.cars = cars', !.agents = agents', !.lights = lights']

\* the part of the Car's stored path from its cursor on, after the transition
restOfPath(c) == SubSeq(cars'[c].path, cars'[c].pathIndex + 1, Len(cars'[c].path))

\* C24: an unjamming Car that relocates in its step has its blocked-tick
\* counter (waitCounter) reset and the pathfinder re-run from the new cell:
\* what is left of its stored path is what findPath returns from its new
\* cell; an unjamming Car that keeps its cell is still unjamming after the
\* step.
C24_UnjammingRelocation ==
    [][ \A c \in agents :
            ( /\ takesStep(c)
              /\ cars[c].state = "unjamming"
              /\ ~hasDestination(cfg, cars[c].pos) ) =>
                IF cars'[c].pos # cars[c].pos
                THEN /\ cars'[c].waitCounter = 0
                     /\ cars'[c].pos # cars'[c].dest =>
                            \E avoidCars \in BOOLEAN :
                                restOfPath(c) = findPath(Wnext, cars'[c].pos, cars'[c].dest,
                                                         avoidCars)
                ELSE cars'[c].state = "unjamming" ]_vars

\* C25: a Car is marked arrived, and removed, only in the cell of its own
\* assigned Destination.
C25_ArrivesAtOwnDestination ==
    \A c \in DOMAIN cars :
        (cars[c].state = "arrived" \/ c \notin agents) => cars[c].pos = cars[c].dest

\* C26: the step of one Car changes that Car only: every other Car keeps
\* its cell, path, cursor, state, directions and counters and its place in
\* the agent set, no Car is constructed, and every traffic light keeps its
\* state.
C26_CarStepFrame ==
    [][ \A c \in agents :
            takesStep(c) =>
                /\ DOMAIN cars' = DOMAIN cars
                /\ \A d \in DOMAIN cars \ {c} :
                       /\ cars'[d] = cars[d]
                       /\ (d \in agents') <=> (d \in agents)
                /\ lights' = lights ]_vars

\* a Car has moved in its step of the pass while another Car and a traffic
\* light are still due to step
C26_SteppedBesideOthers ==
    /\ pc = "pass"
    /\ pendingLights # {}
    /\ \E c \in agents \ pendingCars, d \in pendingCars :
           /\ c # d
           /\ cars[c].steps_taken > 0
           /\ cars[c].waitCounter = 0

\* whether the move (dx, dy) is the straight-forward or a diagonal-forward
\* move of a direction
forwardMove(direction, dx, dy) ==
    CASE direction = "Right" -> dx = 1 /\ dy \in {-1, 0, 1}
      [] direction = "Left"  -> dx = -1 /\ dy \in {-1, 0, 1}
      [] direction = "Up"    -> dy = 1 /\ dx \in {-1, 0, 1}
      [] direction = "Down"  -> dy = -1 /\ dx \in {-1, 0, 1}
      [] OTHER -> FALSE

\* C27: every successor the search recorded was reached from the expanded
\* cell by the straight-forward or a diagonal-forward move of that cell's
\* road direction, never by a lateral or reverse move, and satisfies
\* isValidRoad and isMoveAllowedByRoad from the expanded cell.
C27_ForwardSuccessors ==
    pc = "done" =>
        \A neighbor \in DOMAIN fpResult.cameFrom :
            LET current == fpResult.cameFrom[neighbor]
            IN  /\ forwardMove(getRoadDirection(cfg, current),
                               neighbor[1] - current[1], neighbor[2] - current[2])
                /\ isValidRoad(cfg, neighbor)
                /\ isMoveAllowedByRoad(cfg, current, neighbor)

\* a search that recorded a diagonal successor and a successor of a cell
\* whose road direction is not Right
C27_TurnExplored ==
    /\ pc = "done"
    /\ \E neighbor \in DOMAIN fpResult.cameFrom :
           /\ neighbor[1] # fpResult.cameFrom[neighbor][1]
           /\ neighbor[2] # fpResult.cameFrom[neighbor][2]
    /\ \E neighbor \in DOMAIN fpResult.cameFrom :
           getRoadDirection(cfg, fpResult.cameFrom[neighbor]) \in {"Up", "Left", "Down"}

\* the cost, times 10, the search charges for the move mv out of the cell u
stepCost(w, u, mv, avoidCars) ==
    mv[3] + getCellWeight(w, << u[1] + mv[1], u[2] + mv[2] >>, avoidCars)
          + flowPenalty(w.cfg, << u[1] + mv[1], u[2] + mv[2] >>, mv[1], mv[2])

\* the moves the search may make out of the cell u into the cell v
movesInto(w, u, v) ==
    LET moves == getAllowedMoves(u, getRoadDirection(w.cfg, u))
    IN  {i \in DOMAIN moves : << u[1] + moves[i][1], u[2] + moves[i][2] >> = v}

\* the least costs known, improved by the move mv out of the cell u
relaxMove(w, dist, u, mv, avoidCars) ==
    LET v == << u[1] + mv[1], u[2] + mv[2] >>
        improved(cost) ==
            IF v \notin DOMAIN dist \/ cost < dist[v] THEN (v :> cost) @@ dist ELSE dist
    IN  IF u \in DOMAIN dist /\ isValidRoad(w.cfg, v)
        THEN improved(dist[u] + stepCost(w, u, mv, avoidCars))
        ELSE dist

RECURSIVE relaxMoves(_, _, _, _, _)
relaxMoves(w, dist, u, moves, avoidCars) ==
    IF moves = << >> THEN dist
    ELSE relaxMoves(w, relaxMove(w, dist, u, Head(moves), avoidCars), u, Tail(moves),
                    avoidCars)

\* one round: the moves out of every cell of the sequence
RECURSIVE relaxCells(_, _, _, _)
relaxCells(w, dist, cells, avoidCars) ==
    IF cells = << >> THEN dist
    ELSE relaxCells(w, relaxMoves(w, dist, Head(cells),
                                  getAllowedMoves(Head(cells),
                                                  getRoadDirection(w.cfg, Head(cells))),
                                  avoidCars),
                    Tail(cells), avoidCars)

\* the rounds of relaxation; each round's costs are computed before the next
RECURSIVE relaxed(_, _, _, _)
relaxed(w, dist, avoidCars, rounds) ==
    LET next(round) ==
            IF DOMAIN round # {} THEN relaxed(w, round, avoidCars, rounds - 1) ELSE round
    IN  IF rounds = 0 THEN dist
        ELSE next(relaxCells(w, dist, region(0, width(w.cfg), 0, 0, height(w.cfg)),
                             avoidCars))

\* the least cost of a sequence of successor moves from start to each cell
\* such a sequence reaches
leastCosts(w, start, avoidCars) ==
    relaxed(w, start :> 0, avoidCars, Cardinality(Cells(w.cfg)))

\* the cost the search charges for a path from start
RECURSIVE pathCost(_, _, _, _)
pathCost(w, start, path, avoidCars) ==
    IF path = << >> THEN 0
    ELSE LET moves == getAllowedMoves(start, getRoadDirection(w.cfg, start))
             i == CHOOSE i \in movesInto(w, start, Head(path)) : TRUE
         IN  stepCost(w, start, moves[i], avoidCars)
             + pathCost(w, Head(path), Tail(path), avoidCars)

\* C28: a non-empty path findPath returns between two different cells has
\* the least total cost (move cost, cell weights and against-flow penalties)
\* among the sequences of successor moves from start to end.
C28_OptimalPath ==
    (pc = "done" /\ fpStart # fpEnd /\ fpResult.path # << >>) =>
        /\ fpEnd \in DOMAIN leastCosts(W, fpStart, fpAvoid)
        /\ pathCost(W, fpStart, fpResult.path, fpAvoid) = leastCosts(W, fpStart, fpAvoid)[fpEnd]

-----------------------------------------------------------------------------
(* Claims about getRoadDirection *)

Cardinal == {"Right", "Left", "Up", "Down"}

\* the directions of the Roads in the four cells next to pos
besideRoads(k, pos) ==
    { dataDictionary(k, glyphAt(k, p)) :
        p \in { q \in { <<pos[1] + 1, pos[2]>>, <<pos[1] - 1, pos[2]>>,
                        <<pos[1], pos[2] + 1>>, <<pos[1], pos[2] - 1>> } :
                  InBounds(k, q) /\ hasRoad(k, q) } }

\* C29: getRoadDirection answers one of Right, Left, Up, Down for every cell
\* of the grid: the direction of the Road in the cell if there is one,
\* otherwise, for a light or a destination with Roads beside it, the
\* direction of one of those Roads, otherwise Right; never None.
C29_ResolvesEveryCell ==
    (pc = "answered" /\ InBounds(cfg, rdPos)) =>
        /\ rdResult \in Cardinal
        /\ hasRoad(cfg, rdPos) => rdResult = dataDictionary(cfg, glyphAt(cfg, rdPos))
        /\ (~hasRoad(cfg, rdPos) /\ (hasLight(cfg, rdPos) \/ hasDestination(cfg, rdPos))
              /\ besideRoads(cfg, rdPos) # {}) => rdResult \in besideRoads(cfg, rdPos)
        /\ (~hasRoad(cfg, rdPos)
              /\ (besideRoads(cfg, rdPos) = {}
                    \/ ~(hasLight(cfg, rdPos) \/ hasDestination(cfg, rdPos)))) =>
               rdResult = "Right"

\* a destination with no Road beside it has been resolved to the default
C29_DefaultResolved ==
    /\ pc = "answered"
    /\ InBounds(cfg, rdPos)
    /\ hasDestination(cfg, rdPos)
    /\ besideRoads(cfg, rdPos) = {}
    /\ rdResult = "Right"

\* the direction most Roads beside pos have, the first met in the scan of
\* the four neighbours when several directions have as many
scanMajority(k, pos) ==
    mostCommon(neighbourDirections(k, pos, 1), neighbourDirections(k, pos, 1))

\* C30: for a light or a destination with Roads beside it, getRoadDirection
\* answers the direction most of those Roads have, and among directions
\* that tie the one met first in the scan of the four neighbours, so the
\* answer depends on the grid alone.
C30_MajorityFirstInScan ==
    (pc = "answered" /\ InBounds(cfg, rdPos) /\ ~hasRoad(cfg, rdPos)
       /\ (hasLight(cfg, rdPos) \/ hasDestination(cfg, rdPos))
       /\ besideRoads(cfg, rdPos) # {}) =>
        rdResult = scanMajority(cfg, rdPos)

-----------------------------------------------------------------------------
(* Claims about isMoveAllowedByRoad *)

opposite(direction) ==
    CASE direction = "Right" -> "Left"
      [] direction = "Left"  -> "Right"
      [] direction = "Up"    -> "Down"
      [] direction = "Down"  -> "Up"
      [] OTHER -> "None"

\* how far the displacement goes along the direction
along(direction, dx, dy) ==
    CASE direction = "Right" -> dx
      [] direction = "Left"  -> 0 - dx
      [] direction = "Up"    -> dy
      [] direction = "Down"  -> 0 - dy
      [] OTHER -> 0

\* C31 (as stated): between two different cells of the grid,
\* isMoveAllowedByRoad refuses exactly the displacements whose larger
\* component points against the road direction of the first cell, and it
\* accepts every displacement with two non-zero components that advances
\* along that direction.
C31_DominantComponent ==
    (pc = "told" /\ maCurrent # maNext) =>
        /\ ~maResult <=>
               getMovementDirection(maCurrent, maNext) = opposite(getRoadDirection(cfg, maCurrent))
        /\ ( /\ maNext[1] # maCurrent[1]
             /\ maNext[2] # maCurrent[2]
             /\ along(getRoadDirection(cfg, maCurrent), maNext[1] - maCurrent[1],
                      maNext[2] - maCurrent[2]) > 0 ) => maResult

\* C31 (amended): for any two cells of the grid, isMoveAllowedByRoad refuses
\* exactly the displacements that go back, by any amount, along the road
\* direction of the first cell, whichever component is the larger.
C31_NoStepBack ==
    pc = "told" =>
        (maResult <=> along(getRoadDirection(cfg, maCurrent), maNext[1] - maCurrent[1],
                            maNext[2] - maCurrent[2]) >= 0)

\* a displacement that goes back one cell along the road and further across
\* it has been refused
C31_RefusedAcross ==
    /\ pc = "told"
    /\ ~maResult
    /\ getMovementDirection(maCurrent, maNext) # opposite(getRoadDirection(cfg, maCurrent))
    /\ getMovementDirection(maCurrent, maNext) # getRoadDirection(cfg, maCurrent)
    /\ Abs(maNext[1] - maCurrent[1]) # Abs(maNext[2] - maCurrent[2])

-----------------------------------------------------------------------------
(* Claims about the coordinates handed to the grid *)

\* the cells getCellWeight is called for in a search: the successors the
\* search did not skip
weighed(w, start, end, avoidCars) == DOMAIN findPathRun(w, start, end, avoidCars).cameFrom

\* C32: every coordinate that reaches a grid access is a cell of the grid:
\* the cell of every Car (set from grid[nextPos], grid[newPos] or the spawn
\* cell), every cell of a stored path (looked up once canMoveTo accepts it),
\* every candidate getValidForwardMoves and findAlternativeMove return, and
\* every cell getCellWeight is called for in a search from a Car's cell to
\* its destination, with either value of avoidCars.
C32_GridAccessInBounds ==
    \A c \in agents :
        /\ InBounds(cfg, cars[c].pos)
        /\ \A i \in DOMAIN cars[c].path : InBounds(cfg, cars[c].path[i])
        /\ \A i \in DOMAIN getValidForwardMoves(W, c, cars[c].dirActual) :
               InBounds(cfg, getValidForwardMoves(W, c, cars[c].dirActual)[i][2])
        /\ InBounds(cfg, findAlternativeMove(W, c).pos)
        /\ \A avoidCars \in BOOLEAN :
               \A pos \in weighed(W, cars[c].pos, cars[c].dest, avoidCars) : InBounds(cfg, pos)

\* a Car at the edge of the grid, with a forward cell of its direction
\* outside the grid, has looked for an alternative move and found none
C32_BlockedAtEdge ==
    \E c \in agents :
        /\ cars[c].state = "waiting"
        /\ cars[c].steps_taken > 0
        /\ \E i \in DOMAIN movimientos(cars[c].pos, cars[c].dirActual) :
               ~InBounds(cfg, movimientos(cars[c].pos, cars[c].dirActual)[i][2])
        /\ ~findAlternativeMove(W, c).found

-----------------------------------------------------------------------------
(* Claims about the relocations of a Car *)

Max(a, b) == IF a >= b THEN a ELSE b

chebyshev(pos1, pos2) == Max(Abs(pos1[1] - pos2[1]), Abs(pos1[2] - pos2[2]))

\* C33: a step that relocates a Car puts it in one of the 8 cells adjacent
\* to the cell it leaves.
C33_AdjacentRelocation ==
    [][\A c \in DOMAIN cars :
           cars'[c].pos # cars[c].pos => chebyshev(cars[c].pos, cars'[c].pos) = 1]_vars

\* C34: a step that relocates a Car advances it along the road direction of
\* the cell it leaves: straight on or diagonally forward, never sideways or
\* back.
C34_ForwardRelocation ==
    [][\A c \in DOMAIN cars :
           cars'[c].pos # cars[c].pos =>
               along(getRoadDirection(cfg, cars[c].pos),
                     cars'[c].pos[1] - cars[c].pos[1], cars'[c].pos[2] - cars[c].pos[2]) > 0]_vars

\* C35: every Car registered in the model stands on a cell isValidRoad
\* accepts, in every state.
C35_CarsOnValidRoad ==
    \A c \in agents : isValidRoad(cfg, cars[c].pos)

\* a Car that has moved more than once stands on the cell of a Traffic_Light
C35_OnLightCell ==
    \E c \in agents :
        /\ hasLight(cfg, cars[c].pos)
        /\ ~hasRoad(cfg, cars[c].pos)
        /\ cars[c].steps_taken > 1

-----------------------------------------------------------------------------
(* Claims about the existence of a route *)

\* the cells a sequence of successor moves over valid cells reaches from
\* start on the map alone, no Car on it
reachable(k, start) == DOMAIN leastCosts(initialWorld(k), start, FALSE)

\* C36: findPath returns a non-empty path exactly when the end is reachable
\* from the start by successor moves over valid cells of the map, whatever
\* avoidCars is and wherever Cars stand.
C36_RouteDependsOnMapOnly ==
    pc = "done" => (fpResult.path # << >> <=> fpEnd \in reachable(cfg, fpStart))

\* a search that avoids Cars has returned a path through the cell a Car
\* stands on
C36_RouteThroughCar ==
    /\ pc = "done"
    /\ fpAvoid
    /\ fpStart # fpEnd
    /\ \E i \in DOMAIN fpResult.path : \E c \in agents :
           /\ cars[c].pos = fpResult.path[i]
           /\ fpResult.path[i] # fpEnd

-----------------------------------------------------------------------------
(* Claims about the unjamming state *)

\* the Cars that leave unjamming in this step without being relocated
timedOut == {c \in DOMAIN cars : /\ cars[c].state = "unjamming"
                                 /\ cars'[c].state = "moving"
                                 /\ cars'[c].pos = cars[c].pos}

\* C37: a Car in unjamming is back in moving after at most
\* maxUnjammingAttempts + 1 of its own steps: each of its steps either
\* counts one more attempt or returns it to moving, the step taken with
\* maxUnjammingAttempts attempts behind it returns it to moving whatever
\* is around it, and embotellamientos goes up by one exactly in the steps
\* that return a Car to moving without relocating it.
C37_UnjammingBounded ==
    [][ /\ \A c \in DOMAIN cars :
              (cars[c].state = "unjamming" /\ cars'[c] # cars[c]) =>
                  /\ cars[c].unjammingAttempts <= maxUnjammingAttempts
                  /\ \/ cars'[c].state = "moving"
                     \/ /\ cars'[c].state = "unjamming"
                        /\ cars'[c].unjammingAttempts = cars[c].unjammingAttempts + 1
                        /\ cars'[c].unjammingAttempts <= maxUnjammingAttempts
        /\ embotellamientos' = embotellamientos + Cardinality(timedOut) ]_vars

\* a Car has used up its attempts and is moving again, counted as a jam
C37_GaveUp ==
    /\ embotellamientos > 0
    /\ \E c \in agents : /\ cars[c].state = "moving"
                         /\ cars[c].unjammingAttempts = maxUnjammingAttempts + 1

-----------------------------------------------------------------------------
(* Claims about arrival *)

\* the Car spawned in the first tick
firstCar == fixedAgentCount(cfg)

\* the destination of the first Car can be reached from its spawn cell
firstCarHasRoute ==
    firstCar \in DOMAIN trail => cars[firstCar].dest \in reachable(cfg, trail[firstCar][1].pos)

deadEndKeepsCar ==
    [][\A c \in DOMAIN cars :
           (cfg = Configs[15] /\ cars[c].pos = <<1, 1>>) =>
               (cars'[c].pos = <<1, 1>> /\ cars'[c].state # "arrived")]_vars

\* on the other map of the run the first Car does arrive within the ticks run
arrivesOnOpenRoad ==
    (cfg.lines = Configs[7].lines /\ firstCar \in agents)
        ~> (firstCar \in DOMAIN cars /\ firstCar \notin agents
            /\ cars[firstCar].state = "arrived")

\* the destination of every Car spawned can be reached from its spawn cell
routesExist ==
    \A c \in DOMAIN trail : cars[c].dest \in reachable(cfg, trail[c][1].pos)

====
